---- MODULE Spec2Model ----
(***************************************************************************)
(* Model of error-detective-ai: the analysis engine (analysis-engine.ts),  *)
(* the repository registry and the log parser (mcp-manager.ts).            *)
(*                                                                         *)
(* JavaScript values are tagged records; numbers that are fractions in the *)
(* source (confidence) are kept in tenths: Num(5) is 0.5, Num(10) is 1.0.  *)
(* A text (an oracle response) is a sequence of lexical chunks:            *)
(*   "p"  prose without braces or brackets (never valid JSON),              *)
(*   "{" "}" "[" "]"  the four bracket characters,                         *)
(*   "M"  a well-formed JSON member list without braces ("k": v, ...),     *)
(*   "L"  a JSON literal (null, a number, a string).                       *)
(***************************************************************************)
EXTENDS Integers, Sequences, FiniteSets, TLC

VARIABLES
  pc,             \* where analyze() stands: idle, at one of its awaits, done, thrown
  request,        \* the AnalysisRequest of the call (analysis-engine.ts 6-12)
  aiResponse,     \* outcome of the last generateAnalysis call: a throw or a text
  analysisResult, \* the AnalysisResult under construction (line 37 on)
  thrown,         \* the error analyze() rejected with, or "none"
  oracleCalls,    \* the generateAnalysis calls issued so far, in order
  servers,        \* MCPManager.servers: the isConnected flag of each id
  clients,        \* MCPManager.clients: the ids with a cached client
  ca,             \* locals of performCodeAnalysis (lines 168-174)
  tg,             \* locals of generateUnitTests (lines 291-293)
  searchCalls,    \* the (server, term) searches issued so far
  calls,          \* the registry calls issued so far: operation, locals, position, outcome
  clientMap,      \* MCPManager.clients with the client object and insertion order of each key
  stamp,          \* number of keys inserted into MCPManager.clients so far
  hist,           \* history: handshakes completed since the last disconnect, teardowns called
  post,           \* the POST handler of page.tsx: body, position, what it built, response
  lp              \* the LogParser method last called: its name, its argument, what it returned

vars == <<pc, request, aiResponse, analysisResult, thrown, oracleCalls,
          servers, clients, ca, tg, searchCalls, calls, clientMap, stamp, hist, post, lp>>

\* The variables only the registry operations write, and those only analyze() writes.
regVars == <<calls, clientMap, stamp, hist>>
engineVars == <<pc, request, aiResponse, analysisResult, thrown, oracleCalls, ca, tg,
                searchCalls>>

(* ------------------------------ bounds --------------------------------- *)
MaxTextLen == 5

(* --------------------------- JavaScript values ------------------------- *)
Undef == [t |-> "undef"]
Null == [t |-> "null"]
Str(s) == [t |-> "str", s |-> s]
Num(n) == [t |-> "num", n |-> n]
Bool(b) == [t |-> "bool", b |-> b]
Arr(a) == [t |-> "arr", a |-> a]
Obj(o) == [t |-> "obj", o |-> o]
TextStr(x) == [t |-> "str", x |-> x]

EmptyMembers == [k \in {} |-> Undef]

\* JavaScript truthiness, as used by the || operator.
Truthy(v) ==
  CASE v.t = "undef" -> FALSE
    [] v.t = "null" -> FALSE
    [] v.t = "bool" -> v.b
    [] v.t = "num" -> v.n # 0
    [] v.t = "str" -> IF "s" \in DOMAIN v THEN v.s # ""
                      ELSE IF "x" \in DOMAIN v THEN v.x # <<>> ELSE TRUE
    [] OTHER -> TRUE

\* a || d
OrElse(v, d) == IF Truthy(v) THEN v ELSE d

\* v.k for a value that is not null or undefined (those throw a TypeError).
Get(v, k) == IF v.t = "obj" /\ k \in DOMAIN v.o THEN v.o[k] ELSE Undef

(* ------------------------------- texts --------------------------------- *)
Ch(c) == [c |-> c]
Members(o) == [c |-> "M", o |-> o]
Lit(v) == [c |-> "L", v |-> v]

RECURSIVE SeqsUpTo(_, _)
SeqsUpTo(S, n) ==
  IF n = 0 THEN {<<>>}
  ELSE LET shorter == SeqsUpTo(S, n - 1)
       IN shorter \cup {Append(s, x) : s \in {q \in shorter : Len(q) = n - 1}, x \in S}

IndexSet(text, c) == {i \in 1..Len(text) : text[i].c = c}
Min(S) == CHOOSE x \in S : \A y \in S : x <= y
Max(S) == CHOOSE x \in S : \A y \in S : x >= y

NoMatch == <<>>

\* response.match(/<open>[\s\S]*<close>/): the leftmost match starts at the first
\* open character that has a close character after it and, being greedy, ends at
\* the last close character of the text. NoMatch (null) when there is none.
GreedySpan(text, open, close) ==
  LET os == IndexSet(text, open)
      cs == IndexSet(text, close)
  IN IF os = {} \/ cs = {} \/ Min(os) > Max(cs) THEN NoMatch
     ELSE SubSeq(text, Min(os), Max(cs))

\* JSON.parse on a chunk sequence: value := literal | { [members] } | [ value* ].
RECURSIVE ParseValueAt(_, _), ParseElems(_, _, _)
ParseValueAt(text, i) ==
  IF i > Len(text) THEN [ok |-> FALSE]
  ELSE CASE text[i].c = "L" -> [ok |-> TRUE, v |-> text[i].v, next |-> i + 1]
         [] text[i].c = "{" ->
              IF i + 1 <= Len(text) /\ text[i + 1].c = "}"
                THEN [ok |-> TRUE, v |-> Obj(EmptyMembers), next |-> i + 2]
              ELSE IF i + 2 <= Len(text) /\ text[i + 1].c = "M" /\ text[i + 2].c = "}"
                THEN [ok |-> TRUE, v |-> Obj(text[i + 1].o), next |-> i + 3]
              ELSE [ok |-> FALSE]
         [] text[i].c = "[" -> ParseElems(text, i + 1, <<>>)
         [] OTHER -> [ok |-> FALSE]
ParseElems(text, j, acc) ==
  IF j > Len(text) THEN [ok |-> FALSE]
  ELSE IF text[j].c = "]" THEN [ok |-> TRUE, v |-> Arr(acc), next |-> j + 1]
  ELSE LET r == ParseValueAt(text, j)
       IN IF r.ok THEN ParseElems(text, r.next, Append(acc, r.v)) ELSE [ok |-> FALSE]

\* JSON.parse(text): ok = FALSE stands for the SyntaxError it throws.
JSONParse(text) ==
  LET r == ParseValueAt(text, 1)
  IN IF r.ok /\ r.next = Len(text) + 1 THEN [ok |-> TRUE, v |-> r.v] ELSE [ok |-> FALSE]

(* ------------------------- verdict extraction -------------------------- *)
DefaultRootCause == Str("Unable to determine root cause")
DefaultConfidence == Num(5)
DefaultReasoning == Str("Analysis completed")
ParseFailedRootCause == Str("Error analysis completed, but response parsing failed")
FallbackConfidence == Num(3)

ParsedVerdict(parsed) ==
  [rootCause |-> OrElse(Get(parsed, "rootCause"), DefaultRootCause),
   affectedComponents |-> OrElse(Get(parsed, "affectedComponents"), Arr(<<>>)),
   suggestedFixes |-> <<>>,
   unitTests |-> <<>>,
   confidence |-> OrElse(Get(parsed, "confidence"), DefaultConfidence),
   reasoning |-> OrElse(Get(parsed, "reasoning"), DefaultReasoning),
   codeAnalysis |-> Undef]

\* Mutant of FallbackVerdict: the fallback keeps the default confidence.
FallbackVerdictDefaultConfidence(response) ==
  [rootCause |-> ParseFailedRootCause,
   affectedComponents |-> Arr(<<>>),
   suggestedFixes |-> <<>>,
   unitTests |-> <<>>,
   confidence |-> DefaultConfidence,
   reasoning |-> TextStr(response),
   codeAnalysis |-> Undef]

FallbackVerdict(response) ==
  [rootCause |-> ParseFailedRootCause,
   affectedComponents |-> Arr(<<>>),
   suggestedFixes |-> <<>>,
   unitTests |-> <<>>,
   confidence |-> FallbackConfidence,
   reasoning |-> TextStr(response),
   codeAnalysis |-> Undef]

parseAIResponse(response) ==
  LET jsonMatch == GreedySpan(response, "{", "}")
  IN IF jsonMatch = NoMatch THEN FallbackVerdict(response)
     ELSE LET parsed == JSONParse(jsonMatch)
          IN IF parsed.ok THEN ParsedVerdict(parsed.v) ELSE FallbackVerdict(response)

(* ------------------------- repository registry ------------------------- *)
\* The three default servers, in the insertion order of the servers Map.
ServerOrder == <<"github", "gitlab", "code-index">>
ServerIds == {ServerOrder[i] : i \in 1..Len(ServerOrder)}

ServerName(id) ==
  CASE id = "github" -> "GitHub MCP"
    [] id = "gitlab" -> "GitLab MCP"
    [] id = "code-index" -> "Code Index MCP"

\* Mutant of initializeDefaultServers: the GitHub server is registered as
\* connected.
initializeDefaultServersGitHubConnected == [id \in ServerIds |-> id = "github"]
initializeDefaultServers == [id \in ServerIds |-> FALSE]

RECURSIVE FilterSeq(_, _)
FilterSeq(s, keep) ==
  IF s = <<>> THEN <<>>
  ELSE (IF Head(s) \in keep THEN <<Head(s)>> ELSE <<>>) \o FilterSeq(Tail(s), keep)

\* getConnectedServers(): the servers whose isConnected flag is set, in Map order.
getConnectedServers(srv) == FilterSeq(ServerOrder, {id \in ServerIds : srv[id]})

\* The outcomes of one client.searchCode(query): "throw", or a list of result
\* paths. Only the GitHub client issues a request; the other two are stubs that
\* return [].
SearchPaths == {<<>>, <<"src/db.ts">>, <<"src/db.ts", "src/api.ts">>}
ClientSearchOutcomesOver(id, lists) ==
  IF id = "github"
    THEN {[kind |-> "throw"]} \cup {[kind |-> "ok", paths |-> ps] : ps \in lists}
    ELSE {[kind |-> "ok", paths |-> <<>>]}
ClientSearchOutcomes(id) == ClientSearchOutcomesOver(id, SearchPaths)

\* A result list of 21 paths, one more than performCodeAnalysis keeps.
ManyPaths ==
  <<"src/db.ts", "src/api.ts", "src/f03.ts", "src/f04.ts", "src/f05.ts", "src/f06.ts",
    "src/f07.ts", "src/f08.ts", "src/f09.ts", "src/f10.ts", "src/f11.ts", "src/f12.ts",
    "src/f13.ts", "src/f14.ts", "src/f15.ts", "src/f16.ts", "src/f17.ts", "src/f18.ts",
    "src/f19.ts", "src/f20.ts", "src/f21.ts">>

\* MCPManager.searchCode(query, serverId) with a server id: the client's result,
\* or [] when no client is cached for the id.
ManagerSearchOutcomes(cl, id) ==
  IF id \in cl THEN ClientSearchOutcomesOver(id, SearchPaths \cup {ManyPaths})
  ELSE {[kind |-> "ok", paths |-> <<>>]}

(* ------------------------------ log batches ---------------------------- *)
NoLogs == [present |-> FALSE]

\* LogParser.generateSampleEntries(): what parseLogFiles() returns.
generateSampleEntries ==
  << [timestamp |-> "2024-06-14T12:00:00Z", level |-> "error",
      message |-> "Database connection failed: Connection timeout after 30s",
      source |-> "database"],
     [timestamp |-> "2024-06-14T12:00:05Z", level |-> "error",
      message |-> "Failed to process user request: User not found",
      source |-> "api"],
     [timestamp |-> "2024-06-14T12:00:10Z", level |-> "warn",
      message |-> "High memory usage detected: 85% of available memory in use",
      source |-> "system"] >>

Batch(entries) == [present |-> TRUE, entries |-> entries]

\* s.toLowerCase().match(/\b\w{3,}\b/g) || [] for the strings of this model.
Words(s) ==
  CASE s = "Unable to determine root cause" -> <<"unable", "determine", "root", "cause">>
    [] s = "Error analysis completed, but response parsing failed" ->
         <<"error", "analysis", "completed", "but", "response", "parsing", "failed">>
    [] s = "db is down" -> <<"down">>
    [] s = "Database connection failed: Connection timeout after 30s" ->
         <<"database", "connection", "failed", "connection", "timeout", "after", "30s">>
    [] s = "Failed to process user request: User not found" ->
         <<"failed", "process", "user", "request", "user", "not", "found">>
    [] s = "High memory usage detected: 85% of available memory in use" ->
         <<"high", "memory", "usage", "detected", "available", "memory", "use">>
    [] s \in {"pool", "heap", "lock", "port", "node", "disk"} -> <<s>>
    [] OTHER -> <<>>

RootCauseStopWords == {"the", "and", "or", "but", "error", "issue"}
MessageStopWords == {"the", "and", "or", "but", "error", "failed"}

\* Append the words of ws that are not stop words and not yet in acc
\* (Set.add in insertion order).
RECURSIVE AddTerms(_, _, _)
AddTerms(acc, ws, stop) ==
  IF ws = <<>> THEN acc
  ELSE LET w == Head(ws)
           seen == {acc[i] : i \in 1..Len(acc)}
       IN AddTerms(IF w \in stop \/ w \in seen THEN acc ELSE Append(acc, w), Tail(ws), stop)

RECURSIVE SelectLevel(_, _)
SelectLevel(entries, level) ==
  IF entries = <<>> THEN <<>>
  ELSE (IF Head(entries).level = level THEN <<Head(entries)>> ELSE <<>>)
       \o SelectLevel(Tail(entries), level)

Slice(s, n) == SubSeq(s, 1, IF Len(s) < n THEN Len(s) ELSE n)

RECURSIVE AddMessageTerms(_, _)
AddMessageTerms(acc, entries) ==
  IF entries = <<>> THEN acc
  ELSE AddMessageTerms(AddTerms(acc, Words(Head(entries).message), MessageStopWords),
                       Tail(entries))

MaxErrorMessages == 5
MaxSearchTerms == 10
MaxAffectedFiles == 20

\* extractSearchTerms(logs, rootCause); rootCause is a string here (any other
\* value has no toLowerCase and throws, see performCodeAnalysis below).
extractSearchTerms(logs, rootCause) ==
  LET fromRoot == AddTerms(<<>>, Words(rootCause.s), RootCauseStopWords)
      errors == Slice(SelectLevel(logs.entries, "error"), MaxErrorMessages)
  IN Slice(AddMessageTerms(fromRoot, errors), MaxSearchTerms)

(* ---------------------------- fix generation --------------------------- *)
\* `fix-${index}` and `test-${fix.id}`: the prefix and what follows it.
FixId(index) == [prefix |-> "fix-", n |-> index]
\* Mutant of TestId: every test is named after the first fix of a list.
TestIdOfFirstFix(fixId) == [prefix |-> "test-", of |-> FixId(0)]
TestId(fixId) == [prefix |-> "test-", of |-> fixId]

\* One element of fixes.map(...): ok = FALSE stands for the TypeError thrown by
\* a property access on null.
NormaliseFix(fix, index) ==
  IF fix.t \in {"null", "undef"} THEN [ok |-> FALSE]
  ELSE [ok |-> TRUE,
        v |-> [id |-> FixId(index),
               description |-> OrElse(Get(fix, "description"), Str("Generated fix")),
               priority |-> OrElse(Get(fix, "priority"), Str("medium")),
               type |-> OrElse(Get(fix, "type"), Str("code")),
               code |-> Get(fix, "code"),
               filePath |-> Get(fix, "filePath"),
               explanation |-> OrElse(Get(fix, "explanation"),
                                      Str("Generated fix explanation"))]]

\* fixes.map((fix, index) => ...), indices from 0.
RECURSIVE MapFixes(_, _, _)
MapFixes(elems, index, acc) ==
  IF elems = <<>> THEN [ok |-> TRUE, v |-> acc]
  ELSE LET f == NormaliseFix(Head(elems), index)
       IN IF f.ok THEN MapFixes(Tail(elems), index + 1, Append(acc, f.v))
          ELSE [ok |-> FALSE]

FallbackFixes ==
  << [id |-> FixId(1),
      description |-> Str("Add error handling and retry logic"),
      priority |-> Str("high"),
      type |-> Str("code"),
      code |-> Undef,
      filePath |-> Undef,
      explanation |-> Str("Implement proper error handling to gracefully handle failures and prevent cascading issues")] >>

\* An oracle call's outcome: [kind |-> "throw"] or [kind |-> "text", text |-> t].
OracleThrow == [kind |-> "throw"]
OracleText(t) == [kind |-> "text", text |-> t]

\* Mutant of generateFixes: a response without a '[...]' span yields no fix
\* instead of falling through to the fallback.
generateFixesNoFallthrough(outcome) ==
  IF outcome.kind = "throw" THEN FallbackFixes
  ELSE LET jsonMatch == GreedySpan(outcome.text, "[", "]")
       IN IF jsonMatch = NoMatch THEN <<>>
          ELSE LET fixes == JSONParse(jsonMatch)
               IN IF ~fixes.ok THEN FallbackFixes
                  ELSE LET mapped == MapFixes(fixes.v.a, 0, <<>>)
                       IN IF mapped.ok THEN mapped.v ELSE FallbackFixes

\* What generateFixes returns for the outcome of its oracle call.
generateFixes(outcome) ==
  IF outcome.kind = "throw" THEN FallbackFixes
  ELSE LET jsonMatch == GreedySpan(outcome.text, "[", "]")
       IN IF jsonMatch = NoMatch THEN FallbackFixes
          ELSE LET fixes == JSONParse(jsonMatch)
               IN IF ~fixes.ok THEN FallbackFixes
                  ELSE LET mapped == MapFixes(fixes.v.a, 0, <<>>)
                       IN IF mapped.ok THEN mapped.v ELSE FallbackFixes

(* --------------------------- test generation --------------------------- *)
MaxTestedFixes == 3

\* fix.code && fix.filePath
Testable(fix) == Truthy(fix.code) /\ Truthy(fix.filePath)

\* s.replace(/\.ts$/, '.test.ts') for the file paths of this model.
ReplaceTsSuffix(s) ==
  CASE s = "src/db.ts" -> "src/db.test.ts"
    [] s = "src/api.ts" -> "src/api.test.ts"
    [] OTHER -> s

\* The test pushed for `fix` given the outcome of its oracle call; ok = FALSE
\* when nothing is pushed (no match, or an error caught by the try).
TestFor(fix, outcome) ==
  IF outcome.kind = "throw" THEN [ok |-> FALSE]
  ELSE LET jsonMatch == GreedySpan(outcome.text, "{", "}")
       IN IF jsonMatch = NoMatch THEN [ok |-> FALSE]
          ELSE LET test == JSONParse(jsonMatch)
               IN IF ~test.ok THEN [ok |-> FALSE]
                  ELSE IF ~Truthy(Get(test.v, "filePath")) /\ fix.filePath.t # "str"
                    THEN [ok |-> FALSE]
                  ELSE [ok |-> TRUE,
                        v |-> [id |-> TestId(fix.id),
                               description |-> OrElse(Get(test.v, "description"),
                                                      [t |-> "str", testFor |-> fix.description]),
                               framework |-> OrElse(Get(test.v, "framework"), Str("jest")),
                               code |-> OrElse(Get(test.v, "code"),
                                               Str("// Test code generation failed")),
                               filePath |-> IF Truthy(Get(test.v, "filePath"))
                                              THEN Get(test.v, "filePath")
                                              ELSE Str(ReplaceTsSuffix(fix.filePath.s))]]

(* ------------------------------- analyze ------------------------------- *)
\* A request field left out takes its default (true) in the destructuring.
Flag(f) == IF f = "absent" THEN TRUE ELSE f = "true"
FlagValues == {"absent", "true", "false"}

NoResult == [none |-> TRUE]
\* `returned` is history: the paths the searches of the last code analysis
\* returned.
IdleCa == [servers |-> <<>>, si |-> 0, terms |-> <<>>, ti |-> 0,
           affectedFiles |-> <<>>, potentialIssues |-> <<>>, mcpServerUsed |-> <<>>,
           returned |-> {}]
IdleTg == [i |-> 0, tests |-> <<>>]

\* The part of the state one step of analyze() rewrites.
Machine == [pc |-> pc, res |-> analysisResult, ca |-> ca, tg |-> tg,
            calls |-> oracleCalls, searches |-> searchCalls, thrown |-> thrown]

\* Mutant of NextTest: the loop runs over all the fixes, not over the first
\* three.
RECURSIVE NextTestOfEveryFix(_, _)
NextTestOfEveryFix(m, i) ==
  LET fixes == m.res.suggestedFixes
  IN IF i > Len(fixes)
       THEN [m EXCEPT !.pc = "done", !.res.unitTests = m.tg.tests, !.tg = IdleTg]
     ELSE IF Testable(fixes[i])
       THEN [m EXCEPT !.pc = "awaitTest", !.tg.i = i, !.calls = Append(@, "test")]
     ELSE NextTestOfEveryFix(m, i + 1)

\* generateUnitTests: the loop over fixes.slice(0, 3) from position i up to the
\* next await, or to the return and the end of analyze().
RECURSIVE NextTest(_, _)
NextTest(m, i) ==
  LET fixes == Slice(m.res.suggestedFixes, MaxTestedFixes)
  IN IF i > Len(fixes)
       THEN [m EXCEPT !.pc = "done", !.res.unitTests = m.tg.tests, !.tg = IdleTg]
     ELSE IF Testable(fixes[i])
       THEN [m EXCEPT !.pc = "awaitTest", !.tg.i = i, !.calls = Append(@, "test")]
     ELSE NextTest(m, i + 1)

\* analyze(), lines 51-57.
EnterTests(m) ==
  IF Flag(request.includeTests) /\ Len(m.res.suggestedFixes) > 0
    THEN NextTest([m EXCEPT !.tg = IdleTg], 1)
    ELSE [m EXCEPT !.pc = "done"]

\* Mutant of EnterFixes: the first test call is issued together with the fix
\* call instead of after it.
EnterFixesWithoutWaiting(m) ==
  IF Flag(request.includeFixes)
    THEN [m EXCEPT !.pc = "awaitFixes", !.calls = Append(Append(@, "fixes"), "test")]
    ELSE EnterTests(m)

\* analyze(), lines 45-49, up to the oracle call of generateFixes.
EnterFixes(m) ==
  IF Flag(request.includeFixes)
    THEN [m EXCEPT !.pc = "awaitFixes", !.calls = Append(@, "fixes")]
    ELSE EnterTests(m)

\* Mutant of FinishCode: affectedFiles is returned whole.
FinishCodeKeepsAll(m) ==
  EnterFixes([m EXCEPT !.res.codeAnalysis =
                          [affectedFiles |-> m.ca.affectedFiles,
                           potentialIssues |-> m.ca.potentialIssues,
                           dependencies |-> <<>>,
                           mcpServerUsed |-> m.ca.mcpServerUsed],
                       !.ca = [IdleCa EXCEPT !.returned = m.ca.returned]])

\* The return of performCodeAnalysis and the assignment of line 42.
FinishCode(m) ==
  EnterFixes([m EXCEPT !.res.codeAnalysis =
                          [affectedFiles |-> Slice(m.ca.affectedFiles, MaxAffectedFiles),
                           potentialIssues |-> m.ca.potentialIssues,
                           dependencies |-> <<>>,
                           mcpServerUsed |-> m.ca.mcpServerUsed],
                       !.ca = [IdleCa EXCEPT !.returned = m.ca.returned]])

\* The for loop over connectedServers from server si up to the next await.
RECURSIVE StartServer(_, _)
StartServer(m, si) ==
  IF si > Len(m.ca.servers) THEN FinishCode(m)
  ELSE LET m1 == [m EXCEPT !.ca.si = si, !.ca.ti = 1,
                           !.ca.mcpServerUsed = Append(@, ServerName(m.ca.servers[si]))]
       IN IF m1.ca.terms = <<>> THEN StartServer(m1, si + 1)
          ELSE [m1 EXCEPT !.pc = "awaitSearch",
                          !.searches = @ \cup {<<m1.ca.servers[si], m1.ca.terms[1]>>}]

\* Mutant of performCodeAnalysis: no early return when nothing is connected.
performCodeAnalysisNoPlaceholder(m) ==
  LET connectedServers == getConnectedServers(servers)
  IN IF ~(m.res.rootCause.t = "str" /\ "s" \in DOMAIN m.res.rootCause)
       THEN [m EXCEPT !.pc = "thrown", !.thrown = "TypeError"]
     ELSE StartServer([m EXCEPT !.ca = [IdleCa EXCEPT
                                          !.servers = connectedServers,
                                          !.terms = extractSearchTerms(request.logs,
                                                                       m.res.rootCause)]],
                      1)

NoServersPlaceholder ==
  [affectedFiles |-> <<>>,
   potentialIssues |-> <<"No MCP servers connected for code analysis">>,
   dependencies |-> <<>>,
   mcpServerUsed |-> <<>>]

\* performCodeAnalysis up to its first await.
performCodeAnalysis(m) ==
  LET connectedServers == getConnectedServers(servers)
  IN IF connectedServers = <<>>
       THEN EnterFixes([m EXCEPT !.res.codeAnalysis = NoServersPlaceholder])
     ELSE IF ~(m.res.rootCause.t = "str" /\ "s" \in DOMAIN m.res.rootCause)
       THEN [m EXCEPT !.pc = "thrown", !.thrown = "TypeError"]
     ELSE StartServer([m EXCEPT !.ca = [IdleCa EXCEPT
                                          !.servers = connectedServers,
                                          !.terms = extractSearchTerms(request.logs,
                                                                       m.res.rootCause)]],
                      1)

\* Mutant of EnterCode: a flag left out of the request counts as off.
EnterCodeNoDefault(m) ==
  IF request.includeCodeAnalysis = "true" /\ request.logs.present
    THEN performCodeAnalysis(m)
    ELSE EnterFixes(m)

\* analyze(), lines 39-43.
EnterCode(m) ==
  IF Flag(request.includeCodeAnalysis) /\ request.logs.present
    THEN performCodeAnalysis(m)
    ELSE EnterFixes(m)

Apply(m) ==
  /\ pc' = m.pc
  /\ analysisResult' = m.res
  /\ ca' = m.ca
  /\ tg' = m.tg
  /\ oracleCalls' = m.calls
  /\ searchCalls' = m.searches
  /\ thrown' = m.thrown

\* analyze() is called: the prompt is built and the verdict call is issued.
AnalyzeStart(requests) ==
  /\ pc = "idle"
  /\ \E req \in requests : request' = req
  /\ pc' = "awaitVerdict"
  /\ oracleCalls' = Append(oracleCalls, "verdict")
  /\ UNCHANGED <<aiResponse, analysisResult, thrown, servers, clients, ca, tg, searchCalls, regVars, post, lp>>

\* The verdict call settles. generateAnalysis rethrows every error of the
\* provider, and analyze() awaits it outside any try block.
VerdictReturn(outcomes) ==
  /\ pc = "awaitVerdict"
  /\ \E outcome \in outcomes :
       IF outcome.kind = "throw"
         THEN /\ aiResponse' = outcome
              /\ Apply([Machine EXCEPT !.pc = "thrown", !.thrown = "oracle"])
         ELSE /\ aiResponse' = outcome
              /\ Apply(EnterCode([Machine EXCEPT !.res = parseAIResponse(outcome.text)]))
  /\ UNCHANGED <<request, servers, clients, regVars, post, lp>>

\* result.path && !affectedFiles.includes(result.path), then push.
RECURSIVE AddPaths(_, _)
AddPaths(files, paths) ==
  IF paths = <<>> THEN files
  ELSE LET q == Head(paths)
       IN AddPaths(IF q = "" \/ q \in {files[i] : i \in 1..Len(files)}
                     THEN files ELSE Append(files, q),
                   Tail(paths))

\* Mutant of SearchReturn: no try/catch around the searches of a server.
SearchReturnAborts ==
  /\ pc = "awaitSearch"
  /\ LET id == ca.servers[ca.si]
     IN \E outcome \in ManagerSearchOutcomes(clients, id) :
          IF outcome.kind = "throw"
            THEN Apply([Machine EXCEPT !.pc = "thrown", !.thrown = "search"])
            ELSE LET m == [Machine EXCEPT !.ca.affectedFiles = AddPaths(@, outcome.paths),
                                          !.ca.ti = ca.ti + 1]
                 IN IF m.ca.ti > Len(m.ca.terms)
                      THEN Apply(StartServer(m, ca.si + 1))
                      ELSE Apply([m EXCEPT !.searches = @ \cup {<<id, m.ca.terms[m.ca.ti]>>}])
  /\ UNCHANGED <<request, aiResponse, servers, clients, regVars, post, lp>>

\* One mcpManager.searchCode(term, server.id) of the inner loop settles.
SearchReturn ==
  /\ pc = "awaitSearch"
  /\ LET id == ca.servers[ca.si]
     IN \E outcome \in ManagerSearchOutcomes(clients, id) :
          IF outcome.kind = "throw"
            THEN Apply(StartServer(
                   [Machine EXCEPT !.ca.potentialIssues =
                                      Append(@, <<"Failed to analyze code in", ServerName(id)>>)],
                   ca.si + 1))
            ELSE LET m == [Machine EXCEPT !.ca.affectedFiles = AddPaths(@, outcome.paths),
                                          !.ca.returned =
                                             @ \cup {outcome.paths[i] :
                                                       i \in 1..Len(outcome.paths)},
                                          !.ca.ti = ca.ti + 1]
                 IN IF m.ca.ti > Len(m.ca.terms)
                      THEN Apply(StartServer(m, ca.si + 1))
                      ELSE Apply([m EXCEPT !.searches = @ \cup {<<id, m.ca.terms[m.ca.ti]>>}])
  /\ UNCHANGED <<request, aiResponse, servers, clients, regVars, post, lp>>

\* The oracle call of generateFixes settles; line 48 stores what it returns.
FixesReturn(outcomes) ==
  /\ pc = "awaitFixes"
  /\ \E outcome \in outcomes :
       /\ aiResponse' = outcome
       /\ Apply(EnterTests([Machine EXCEPT !.res.suggestedFixes = generateFixes(outcome)]))
  /\ UNCHANGED <<request, servers, clients, regVars, post, lp>>

\* The oracle call for the fix at position tg.i settles.
TestReturn(outcomes) ==
  /\ pc = "awaitTest"
  /\ \E outcome \in outcomes :
       LET fix == analysisResult.suggestedFixes[tg.i]
           t == TestFor(fix, outcome)
       IN /\ aiResponse' = outcome
          /\ Apply(NextTest([Machine EXCEPT !.tg.tests = IF t.ok THEN Append(@, t.v) ELSE @],
                            tg.i + 1))
  /\ UNCHANGED <<request, servers, clients, regVars, post, lp>>

(* ----------------- registry operations (mcp-manager.ts) ---------------- *)
\* Calls of connectServer, disconnectServer and searchCode are numbered in
\* the order they are issued; each runs up to its next await in one step, so
\* calls interleave exactly at the awaits of lines 103, 119, 136 and 143.
MaxCalls == 3
Slots == 1..MaxCalls

\* An id no server is registered under.
UnknownId == "unknown"
CallIds == ServerIds \cup {UnknownId}
\* searchCode called without a serverId.
FanOut == "all"

NoClient == [stamp |-> 0, client |-> 0]
NoCall ==
  [op |-> "none", id |-> "none", pc |-> "idle", held |-> 0, cur |-> "none",
   last |-> 0, asked |-> <<>>, replies |-> <<>>, results |-> <<>>, ret |-> "none",
   snapshot |-> {}, quiet |-> FALSE]
IdleHist == [okSince |-> [id \in ServerIds |-> FALSE], teardowns |-> <<>>]

\* this.clients.get(id) is defined.
Has(cm, id) == id \in ServerIds /\ cm[id].client # 0
Keys(cm) == {id \in ServerIds : cm[id].client # 0}

\* this.clients.set(id, client): a new key is appended to the insertion
\* order, an existing key keeps its place and gets the new value.
MapSet(cm, st, id, client) ==
  IF Has(cm, id) THEN [cm EXCEPT ![id].client = client]
  ELSE [cm EXCEPT ![id] = [stamp |-> st + 1, client |-> client]]

\* Mutant of NextKey: the loop stops after the first entry of the Map.
NextKeyFirstOnly(cm, last) ==
  LET keys == Keys(cm)
  IN IF last # 0 \/ keys = {} THEN "none"
     ELSE CHOOSE id \in keys : \A other \in keys : cm[id].stamp <= cm[other].stamp

\* What the iterator of `for (const [id, client] of this.clients)` yields after
\* the entry inserted as number `last`: the Map is read live, in insertion order.
NextKey(cm, last) ==
  LET later == {id \in Keys(cm) : cm[id].stamp > last}
  IN IF later = {} THEN "none"
     ELSE CHOOSE id \in later : \A other \in later : cm[id].stamp <= cm[other].stamp

\* client.connect(): the two REST clients throw when the /user request is not
\* ok (or fetch rejects); the code-index client does nothing.
HandshakeOutcomes(id) == IF id = "code-index" THEN {TRUE} ELSE {TRUE, FALSE}

\* serverResults as pushed for one backend: tagged with source in the fan-out
\* (line 144), as the client returned them when a serverId was given.
Tagged(paths, id) == [i \in 1..Len(paths) |-> [path |-> paths[i], source |-> id]]
Untagged(paths) == [i \in 1..Len(paths) |-> [path |-> paths[i]]]

\* No other call stands at an await.
Quiet == \A q \in Slots : calls[q].pc \in {"idle", "done"}

\* Calls are issued one after the other.
CanStart(p) == calls[p].op = "none" /\ (IF p = 1 THEN TRUE ELSE calls[p - 1].op # "none")

\* connectServer up to `await client.connect()`. The three registered servers
\* have the three types the switch knows, so its default branch is not taken.
ConnectCall(p, id) ==
  /\ CanStart(p)
  /\ calls' = [calls EXCEPT ![p] =
                 IF id \notin ServerIds
                   THEN [NoCall EXCEPT !.op = "connect", !.id = id, !.pc = "done",
                                       !.ret = "throw"]
                   ELSE [NoCall EXCEPT !.op = "connect", !.id = id, !.pc = "handshake",
                                       !.held = p]]
  /\ UNCHANGED <<servers, clients, clientMap, stamp, hist, engineVars, post, lp>>

\* Mutant of ConnectReturn: the flag is set whatever the handshake's outcome.
ConnectReturnFlagsOnFailure(p) ==
  /\ calls[p].op = "connect" /\ calls[p].pc = "handshake"
  /\ LET id == calls[p].id
     IN \E ok \in HandshakeOutcomes(id) :
          /\ servers' = [servers EXCEPT ![id] = TRUE]
          /\ IF ok
               THEN /\ clientMap' = MapSet(clientMap, stamp, id, calls[p].held)
                    /\ stamp' = IF Has(clientMap, id) THEN stamp ELSE stamp + 1
                    /\ clients' = clients \cup {id}
                    /\ hist' = [hist EXCEPT !.okSince[id] = TRUE]
                    /\ calls' = [calls EXCEPT ![p].pc = "done", ![p].ret = "true"]
               ELSE /\ calls' = [calls EXCEPT ![p].pc = "done", ![p].ret = "false"]
                    /\ UNCHANGED <<clients, clientMap, stamp, hist>>
  /\ UNCHANGED <<engineVars, post, lp>>

\* Mutant of ConnectReturn: the client is cached before the handshake's
\* outcome is known.
ConnectReturnCachesOnFailure(p) ==
  /\ calls[p].op = "connect" /\ calls[p].pc = "handshake"
  /\ LET id == calls[p].id
     IN \E ok \in HandshakeOutcomes(id) :
          /\ clientMap' = MapSet(clientMap, stamp, id, calls[p].held)
          /\ stamp' = IF Has(clientMap, id) THEN stamp ELSE stamp + 1
          /\ clients' = clients \cup {id}
          /\ IF ok
               THEN /\ servers' = [servers EXCEPT ![id] = TRUE]
                    /\ hist' = [hist EXCEPT !.okSince[id] = TRUE]
                    /\ calls' = [calls EXCEPT ![p].pc = "done", ![p].ret = "true"]
               ELSE /\ calls' = [calls EXCEPT ![p].pc = "done", ![p].ret = "false"]
                    /\ UNCHANGED <<servers, hist>>
  /\ UNCHANGED <<engineVars, post, lp>>

\* The handshake settles: lines 104-109 on success, the catch block otherwise.
ConnectReturn(p) ==
  /\ calls[p].op = "connect" /\ calls[p].pc = "handshake"
  /\ LET id == calls[p].id
     IN \E ok \in HandshakeOutcomes(id) :
          IF ok
            THEN /\ clientMap' = MapSet(clientMap, stamp, id, calls[p].held)
                 /\ stamp' = IF Has(clientMap, id) THEN stamp ELSE stamp + 1
                 /\ clients' = clients \cup {id}
                 /\ servers' = [servers EXCEPT ![id] = TRUE]
                 /\ hist' = [hist EXCEPT !.okSince[id] = TRUE]
                 /\ calls' = [calls EXCEPT ![p].pc = "done", ![p].ret = "true"]
            ELSE /\ calls' = [calls EXCEPT ![p].pc = "done", ![p].ret = "false"]
                 /\ UNCHANGED <<servers, clients, clientMap, stamp, hist>>
  /\ UNCHANGED <<engineVars, post, lp>>

\* Mutant of DisconnectCall: client.disconnect() is called without the
\* `if (client)` guard, a TypeError when no client is cached.
DisconnectCallUnguarded(p, id) ==
  /\ CanStart(p)
  /\ IF Has(clientMap, id)
       THEN /\ calls' = [calls EXCEPT ![p] =
                           [NoCall EXCEPT !.op = "disconnect", !.id = id, !.pc = "teardown",
                                          !.held = clientMap[id].client]]
            /\ hist' = [hist EXCEPT !.teardowns = Append(@, clientMap[id].client)]
       ELSE /\ calls' = [calls EXCEPT ![p] =
                           [NoCall EXCEPT !.op = "disconnect", !.id = id, !.pc = "done",
                                          !.ret = "throw"]]
            /\ UNCHANGED hist
  /\ UNCHANGED <<servers, clients, clientMap, stamp, engineVars, post, lp>>

\* disconnectServer up to `await client.disconnect()`, or to its end when no
\* client is cached.
DisconnectCall(p, id) ==
  /\ CanStart(p)
  /\ IF Has(clientMap, id)
       THEN /\ calls' = [calls EXCEPT ![p] =
                           [NoCall EXCEPT !.op = "disconnect", !.id = id, !.pc = "teardown",
                                          !.held = clientMap[id].client]]
            /\ hist' = [hist EXCEPT !.teardowns = Append(@, clientMap[id].client)]
            /\ UNCHANGED servers
       ELSE /\ calls' = [calls EXCEPT ![p] =
                           [NoCall EXCEPT !.op = "disconnect", !.id = id, !.pc = "done",
                                          !.ret = "ok"]]
            /\ servers' = IF id \in ServerIds THEN [servers EXCEPT ![id] = FALSE] ELSE servers
            /\ hist' = IF id \in ServerIds THEN [hist EXCEPT !.okSince[id] = FALSE] ELSE hist
  /\ UNCHANGED <<clients, clientMap, stamp, engineVars, post, lp>>

\* Mutant of DisconnectReturn: the flag of the server is left as it is.
DisconnectReturnKeepsFlag(p) ==
  /\ calls[p].op = "disconnect" /\ calls[p].pc = "teardown"
  /\ LET id == calls[p].id
     IN /\ clientMap' = [clientMap EXCEPT ![id] = NoClient]
        /\ clients' = clients \ {id}
        /\ calls' = [calls EXCEPT ![p].pc = "done", ![p].ret = "ok"]
  /\ UNCHANGED <<servers, hist, stamp, engineVars, post, lp>>

\* The teardown settles (no client's disconnect() throws): lines 120-127.
DisconnectReturn(p) ==
  /\ calls[p].op = "disconnect" /\ calls[p].pc = "teardown"
  /\ LET id == calls[p].id
     IN /\ clientMap' = [clientMap EXCEPT ![id] = NoClient]
        /\ clients' = clients \ {id}
        /\ servers' = [servers EXCEPT ![id] = FALSE]
        /\ hist' = [hist EXCEPT !.okSince[id] = FALSE]
        /\ calls' = [calls EXCEPT ![p].pc = "done", ![p].ret = "ok"]
  /\ UNCHANGED <<stamp, engineVars, post, lp>>

\* searchCode up to its first `await client.searchCode(query)`, or to its end
\* when there is no client to ask. snapshot and quiet are history: the keys of
\* this.clients when the call was issued, and whether it was issued while no
\* other call was in flight.
SearchCall(p, target) ==
  /\ CanStart(p)
  /\ LET first == IF target = FanOut THEN NextKey(clientMap, 0)
                  ELSE IF Has(clientMap, target) THEN target ELSE "none"
         started == [NoCall EXCEPT !.op = "search", !.id = target,
                                   !.snapshot = Keys(clientMap), !.quiet = Quiet]
     IN calls' = [calls EXCEPT ![p] =
                    IF first = "none"
                      THEN [started EXCEPT !.pc = "done", !.ret = "ok"]
                      ELSE [started EXCEPT !.pc = "searching",
                                           !.cur = first, !.held = clientMap[first].client,
                                           !.last = clientMap[first].stamp,
                                           !.asked = <<first>>]]
  /\ UNCHANGED <<servers, clients, clientMap, stamp, hist, engineVars, post, lp>>

\* Mutant of SearchClientReturn: the fan-out has no try block, a throwing
\* client rejects the whole call.
SearchClientReturnAborts(p) ==
  /\ calls[p].op = "search" /\ calls[p].pc = "searching"
  /\ LET c == calls[p]
         replied(o) == [c EXCEPT !.replies = Append(@, [id |-> c.cur, outcome |-> o])]
     IN \E outcome \in ClientSearchOutcomes(c.cur) :
          IF outcome.kind = "throw"
            THEN calls' = [calls EXCEPT ![p] =
                             [replied(outcome) EXCEPT !.pc = "done", !.ret = "throw"]]
            ELSE LET results == c.results \o (IF c.id = FanOut
                                                THEN Tagged(outcome.paths, c.cur)
                                                ELSE Untagged(outcome.paths))
                     nxt == IF c.id = FanOut THEN NextKey(clientMap, c.last) ELSE "none"
                 IN calls' = [calls EXCEPT ![p] =
                      IF nxt = "none"
                        THEN [replied(outcome) EXCEPT !.pc = "done", !.ret = "ok",
                                                      !.results = results]
                        ELSE [replied(outcome) EXCEPT !.results = results, !.cur = nxt,
                                       !.held = clientMap[nxt].client,
                                       !.last = clientMap[nxt].stamp,
                                       !.asked = Append(@, nxt)]]
  /\ UNCHANGED <<servers, clients, clientMap, stamp, hist, engineVars, post, lp>>

\* One client.searchCode settles. With a serverId the await is outside any try
\* block; in the fan-out the catch of line 145 absorbs the throw and the loop
\* goes on with the next entry of the Map.
SearchClientReturn(p) ==
  /\ calls[p].op = "search" /\ calls[p].pc = "searching"
  /\ LET c == calls[p]
         replied(o) == [c EXCEPT !.replies = Append(@, [id |-> c.cur, outcome |-> o])]
     IN \E outcome \in ClientSearchOutcomes(c.cur) :
          IF c.id # FanOut
            THEN calls' = [calls EXCEPT ![p] =
                   IF outcome.kind = "throw"
                     THEN [replied(outcome) EXCEPT !.pc = "done", !.ret = "throw"]
                     ELSE [replied(outcome) EXCEPT !.pc = "done", !.ret = "ok",
                                    !.results = Untagged(outcome.paths)]]
            ELSE LET results == IF outcome.kind = "throw" THEN c.results
                                ELSE c.results \o Tagged(outcome.paths, c.cur)
                     nxt == NextKey(clientMap, c.last)
                 IN calls' = [calls EXCEPT ![p] =
                      IF nxt = "none"
                        THEN [replied(outcome) EXCEPT !.pc = "done", !.ret = "ok",
                                                      !.results = results]
                        ELSE [replied(outcome) EXCEPT !.results = results, !.cur = nxt,
                                       !.held = clientMap[nxt].client,
                                       !.last = clientMap[nxt].stamp,
                                       !.asked = Append(@, nxt)]]
  /\ UNCHANGED <<servers, clients, clientMap, stamp, hist, engineVars, post, lp>>

(* --------------------- log classifier (LogParser) ---------------------- *)
\* A raw log line is a sequence of lexical tokens, each a maximal run of one
\* class of characters:
\*   "[" "]" ":"       the character itself,
\*   "sp" "tab"        one space, one tab (both match \s, only "sp" matches ' '),
\*   "w"               a run of word characters (\w+) with its text s,
\*   "ts"              a timestamp text s written in form f: "slash" is
\*                     2024/06/14 12:00:00, "iso" is 2024-06-14T12:00:00Z,
\*   "txt"             any other text without brackets,
\*   "json"            a text JSON.parse accepts, with the value v it parses to.
Tk(k) == [k |-> k]
W(s) == [k |-> "w", s |-> s]
Ts(f, s) == [k |-> "ts", f |-> f, s |-> s]
Txt(s) == [k |-> "txt", s |-> s]
Json(v) == [k |-> "json", v |-> v]

IsWs(t) == t.k \in {"sp", "tab"}

\* The first index at or after i that holds no whitespace token.
RECURSIVE SkipWs(_, _)
SkipWs(line, i) == IF i <= Len(line) /\ IsWs(line[i]) THEN SkipWs(line, i + 1) ELSE i

\* String.prototype.trim on a token sequence.
RECURSIVE Trim(_)
Trim(ts) ==
  IF ts = <<>> THEN <<>>
  ELSE IF IsWs(Head(ts)) THEN Trim(Tail(ts))
  ELSE IF IsWs(ts[Len(ts)]) THEN Trim(SubSeq(ts, 1, Len(ts) - 1))
  ELSE ts

\* Where [^\]]+ must stop: the first "]" of the line (0 when there is none).
FirstClose(line) ==
  LET closes == {i \in 1..Len(line) : line[i].k = "]"}
  IN IF closes = {} THEN 0 ELSE CHOOSE i \in closes : \A j \in closes : i <= j

\* level.toLowerCase() for the level words of this model.
Lower(s) ==
  CASE s = "ERROR" -> "error"
    [] s = "WARN" -> "warn"
    [] s = "INFO" -> "info"
    [] s = "DEBUG" -> "debug"
    [] s = "FATAL" -> "fatal"
    [] s = "NOTICE" -> "notice"
    [] s = "Critical" -> "critical"
    [] s = "Warn" -> "warn"
    [] OTHER -> s

NoEntry == [ok |-> FALSE]

\* A matcher that ends by throwing instead of returning.
Thrown == [ok |-> FALSE, threw |-> TRUE]
IsThrown(r) == "threw" \in DOMAIN r

\* Mutant of Catch: the catch blocks are missing, an exception propagates.
CatchNothing(r) == r

\* `catch { return null }` of parseJSONFormat (line 446) and `catch { }` around
\* each format of parseLogLine (line 413): a throw counts as no entry.
Catch(r) == IF IsThrown(r) THEN NoEntry ELSE r
Entry(timestamp, level, message, source) ==
  [ok |-> TRUE,
   entry |-> [timestamp |-> timestamp, level |-> level, message |-> message,
              source |-> source]]

Is(line, i, k) == i <= Len(line) /\ line[i].k = k

\* /^\[([^\]]+)\]\s+(\w+):\s+(.+)$/
parseStandardFormat(line) ==
  LET j == FirstClose(line)
      w == SkipWs(line, j + 1)
  IN IF /\ Is(line, 1, "[") /\ j >= 3 /\ w > j + 1
        /\ Is(line, w, "w") /\ Is(line, w + 1, ":")
        /\ w + 2 <= Len(line) /\ IsWs(line[w + 2]) /\ w + 3 <= Len(line)
       THEN Entry(SubSeq(line, 2, j - 1), Lower(line[w].s),
                  Trim(SubSeq(line, w + 3, Len(line))), "application")
       ELSE NoEntry

\* Mutant of FirstTruthy: the alternatives are read in the reverse order.
LastTruthy(a, b, c) == OrElse(OrElse(c, b), a)

\* a || b || c
FirstTruthy(a, b, c) == OrElse(OrElse(a, b), c)

\* The try block of parseJSONFormat (lines 437-445): JSON.parse(line), then
\* the field reads. JSON.parse of a text that is not JSON, reading a property
\* of null, and calling toLowerCase on a level that is not a string all throw.
JSONFields(line) ==
  LET t == Trim(line)
  IN IF ~(Len(t) = 1 /\ t[1].k = "json") THEN Thrown
     ELSE LET json == t[1].v
              level == FirstTruthy(Get(json, "level"), Get(json, "severity"), Str("info"))
          IN IF json.t = "null" \/ level.t # "str" THEN Thrown
             ELSE [ok |-> TRUE,
                   entry |->
                     [timestamp |-> FirstTruthy(Get(json, "timestamp"), Get(json, "time"),
                                                Get(json, "@timestamp")),
                      level |-> Lower(level.s),
                      message |-> FirstTruthy(Get(json, "message"), Get(json, "msg"),
                                              TextStr(line)),
                      source |-> FirstTruthy(Get(json, "service"), Get(json, "source"),
                                             Get(json, "logger")),
                      stackTrace |-> OrElse(Get(json, "stack"), Get(json, "stackTrace")),
                      context |-> OrElse(Get(json, "context"), Get(json, "meta"))]]

\* parseJSONFormat: the try block, and null when it throws.
parseJSONFormat(line) == Catch(JSONFields(line))

\* /^(\d{4}\/\d{2}\/\d{2} \d{2}:\d{2}:\d{2}) \[(\w+)\] (.+)$/
parseNginxFormat(line) ==
  IF /\ Is(line, 1, "ts") /\ line[1].f = "slash" /\ Is(line, 2, "sp") /\ Is(line, 3, "[")
     /\ Is(line, 4, "w") /\ Is(line, 5, "]") /\ Is(line, 6, "sp") /\ Len(line) >= 7
    THEN Entry(<<line[1]>>, Lower(line[4].s), Trim(SubSeq(line, 7, Len(line))), "nginx")
    ELSE NoEntry

\* /^\[([^\]]+)\] \[(\w+)\] (.+)$/
parseApacheFormat(line) ==
  LET j == FirstClose(line)
  IN IF /\ Is(line, 1, "[") /\ j >= 3 /\ Is(line, j + 1, "sp") /\ Is(line, j + 2, "[")
        /\ Is(line, j + 3, "w") /\ Is(line, j + 4, "]") /\ Is(line, j + 5, "sp")
        /\ Len(line) >= j + 6
       THEN Entry(SubSeq(line, 2, j - 1), Lower(line[j + 3].s),
                  Trim(SubSeq(line, j + 6, Len(line))), "apache")
       ELSE NoEntry

\* /^(<ISO timestamp>)\s+(\w+)\s+(.+)$/
parseApplicationFormat(line) ==
  LET w == SkipWs(line, 2)
  IN IF /\ Is(line, 1, "ts") /\ line[1].f = "iso" /\ w > 2 /\ Is(line, w, "w")
        /\ w + 1 <= Len(line) /\ IsWs(line[w + 1]) /\ w + 2 <= Len(line)
       THEN Entry(<<line[1]>>, Lower(line[w].s), Trim(SubSeq(line, w + 2, Len(line))),
                  "application")
       ELSE NoEntry

\* Mutant of Formats: the JSON format is tried first.
FormatsJSONFirst == <<"json", "standard", "nginx", "apache", "application">>

\* The formats array of parseLogLine (lines 401-407).
Formats == <<"standard", "json", "nginx", "apache", "application">>

\* format(line) for the format of the given name.
ApplyFormat(name, line) ==
  CASE name = "standard" -> parseStandardFormat(line)
    [] name = "json" -> parseJSONFormat(line)
    [] name = "nginx" -> parseNginxFormat(line)
    [] name = "apache" -> parseApacheFormat(line)
    [] name = "application" -> parseApplicationFormat(line)

\* The loop of parseLogLine from format number i on. `tried` lists the formats
\* called so far and `by` names the one whose entry is returned: both are
\* history. An exception no catch block absorbs ends the call.
RECURSIVE TryFormats(_, _, _)
TryFormats(line, i, tried) ==
  IF i > Len(Formats) THEN [ok |-> FALSE, tried |-> tried]
  ELSE LET result == Catch(ApplyFormat(Formats[i], line))
           called == Append(tried, Formats[i])
       IN IF IsThrown(result) THEN [ok |-> FALSE, threw |-> TRUE, tried |-> called]
          ELSE IF result.ok
            THEN [ok |-> TRUE, entry |-> result.entry, by |-> Formats[i], tried |-> called]
          ELSE TryFormats(line, i + 1, called)

\* parseLogLine: the entry of the first format, in the order of lines 401-407,
\* that returns one, or null.
parseLogLine(line) == TryFormats(line, 1, <<>>)

\* parseLogContent: the entries of the lines that are not blank, in order.
RECURSIVE parseLogContent(_)
parseLogContent(lines) ==
  IF lines = <<>> THEN <<>>
  ELSE (IF Trim(Head(lines)) # <<>> /\ parseLogLine(Head(lines)).ok
          THEN <<parseLogLine(Head(lines)).entry>> ELSE <<>>)
       \o parseLogContent(Tail(lines))

(* --------------------- log aggregator (LogParser) ---------------------- *)
\* new Date(timestamp) for the timestamp strings of this model, all of June
\* 2024: the day of the month and the second of the day, or an invalid date.
InvalidDate == [valid |-> FALSE, day |-> 0, sec |-> 0]
DateOf(day, sec) == [valid |-> TRUE, day |-> day, sec |-> sec]
ParseDate(timestamp) ==
  CASE timestamp = "2024-06-14T12:00:00Z" -> DateOf(14, 43200)
    [] timestamp = "2024-06-14T12:00:05Z" -> DateOf(14, 43205)
    [] timestamp = "2024-06-14T12:00:10Z" -> DateOf(14, 43210)
    [] timestamp = "2024-06-10T09:30:00Z" -> DateOf(10, 34200)
    [] timestamp = "2024-06-12T23:59:59Z" -> DateOf(12, 86399)
    [] timestamp = "2024-06-16T08:00:00Z" -> DateOf(16, 28800)
    [] OTHER -> InvalidDate

\* new Date(): the time of the call.
Now == [valid |-> TRUE, day |-> 30, sec |-> 0]

\* Array.prototype.sort() without a comparator orders its elements by their
\* string conversion, compared code unit by code unit. A Date converts to
\* "Fri Jun 14 2024 12:00:00 GMT+0000 (...)" (the process runs in UTC) or to
\* "Invalid Date": the order is decided by the weekday name, then, month and
\* year being those of June 2024 throughout, by the day and the time.
\* June 1st 2024 is a Saturday; weekday 0 is Sunday.
Weekday(day) == (day + 5) % 7
\* The place of "Fri", "Inv", "Mon", "Sat", "Sun", "Thu", "Tue", "Wed" in
\* code-unit order.
NameRank(date) ==
  IF ~date.valid THEN 2
  ELSE CASE Weekday(date.day) = 0 -> 5
         [] Weekday(date.day) = 1 -> 3
         [] Weekday(date.day) = 2 -> 7
         [] Weekday(date.day) = 3 -> 8
         [] Weekday(date.day) = 4 -> 6
         [] Weekday(date.day) = 5 -> 1
         [] Weekday(date.day) = 6 -> 4

\* String(a) < String(b)
StringLess(a, b) ==
  \/ NameRank(a) < NameRank(b)
  \/ /\ NameRank(a) = NameRank(b)
     /\ \/ a.day < b.day
        \/ a.day = b.day /\ a.sec < b.sec

\* sort(): a stable insertion of each element after the elements that are
\* not greater than it.
RECURSIVE InsertSorted(_, _)
InsertSorted(sorted, date) ==
  IF sorted = <<>> THEN <<date>>
  ELSE IF StringLess(date, Head(sorted)) THEN <<date>> \o sorted
  ELSE <<Head(sorted)>> \o InsertSorted(Tail(sorted), date)

RECURSIVE SortDates(_)
SortDates(dates) ==
  IF dates = <<>> THEN <<>>
  ELSE InsertSorted(SortDates(SubSeq(dates, 1, Len(dates) - 1)), dates[Len(dates)])

\* Lines 370-373 of parseLogFiles.
TimeRange(entries) ==
  LET timestamps == SortDates([i \in 1..Len(entries) |-> ParseDate(entries[i].timestamp)])
  IN [start |-> IF timestamps = <<>> THEN Now ELSE timestamps[1],
      end |-> IF timestamps = <<>> THEN Now ELSE timestamps[Len(timestamps)]]

\* Mutant of Sources: every source is pushed, empty and repeated ones too.
SourcesUnfiltered(entries) == [i \in 1..Len(entries) |-> entries[i].source]

\* if (entry.source) sources.add(entry.source), then Array.from(sources): the
\* truthy sources in the order they first appear. An entry without a source
\* is one whose source is "".
RECURSIVE Sources(_)
Sources(entries) ==
  IF entries = <<>> THEN <<>>
  ELSE LET before == Sources(SubSeq(entries, 1, Len(entries) - 1))
           source == entries[Len(entries)].source
       IN IF source = "" \/ source \in {before[i] : i \in 1..Len(before)}
            THEN before ELSE Append(before, source)

\* The counting loop and the return value of parseLogFiles (lines 364-382).
CountLevel(entries, level) == Len(SelectLevel(entries, level))
Aggregate(entries) ==
  [entries |-> entries,
   totalEntries |-> Len(entries),
   errorCount |-> CountLevel(entries, "error"),
   warnCount |-> CountLevel(entries, "warn"),
   timeRange |-> TimeRange(entries),
   sources |-> Sources(entries)]

\* parseLogFiles declares no parameter: whatever the caller passes, the batch
\* is built from generateSampleEntries().
parseLogFiles(logs) == Aggregate(generateSampleEntries)

(* -------------------- extractErrorPatterns (LogParser) ----------------- *)
\* Which of the substrings extractErrorPatterns looks for occur in
\* message.toLowerCase(), for the messages of this model.
Substrings(message) ==
  CASE message = "Database connection failed: Connection timeout after 30s" ->
         {"connection", "timeout"}
    [] message = "Failed to process user request: User not found" -> {"not found"}
    [] message = "High memory usage detected: 85% of available memory in use" -> {"memory"}
    [] message = "Read TIMEOUT on Connection 7" -> {"timeout", "connection"}
    [] message = "Unauthorized: permission denied" -> {"unauthorized", "permission"}
    [] message = "Out of memory" -> {"memory", "out of memory"}
    [] message = "No space left on device" -> {"space"}
    [] message = "Network unreachable" -> {"network"}
    [] OTHER -> {}

\* The seven tests of lines 527-533, in their order.
PatternRules ==
  << [tag |-> "connection_errors", keywords |-> {"connection"}],
     [tag |-> "timeout_errors", keywords |-> {"timeout"}],
     [tag |-> "not_found_errors", keywords |-> {"not found"}],
     [tag |-> "auth_errors", keywords |-> {"permission", "unauthorized"}],
     [tag |-> "memory_errors", keywords |-> {"memory", "out of memory"}],
     [tag |-> "disk_errors", keywords |-> {"disk", "space"}],
     [tag |-> "network_errors", keywords |-> {"network"}] >>

\* patterns.add(tag) for each rule, from rule number i on, that the message
\* satisfies.
RECURSIVE AddPatterns(_, _, _)
AddPatterns(patterns, message, i) ==
  IF i > Len(PatternRules) THEN patterns
  ELSE LET rule == PatternRules[i]
           seen == {patterns[k] : k \in 1..Len(patterns)}
       IN AddPatterns(IF Substrings(message) \cap rule.keywords # {} /\ rule.tag \notin seen
                        THEN Append(patterns, rule.tag) ELSE patterns,
                      message, i + 1)

\* Mutant of ScanEntries: the level of an entry is not looked at.
RECURSIVE ScanEntriesOfAnyLevel(_, _)
ScanEntriesOfAnyLevel(patterns, entries) ==
  IF entries = <<>> THEN patterns
  ELSE ScanEntriesOfAnyLevel(AddPatterns(patterns, Head(entries).message, 1), Tail(entries))

\* entries.filter(e => e.level === 'error').forEach(...)
RECURSIVE ScanEntries(_, _)
ScanEntries(patterns, entries) ==
  IF entries = <<>> THEN patterns
  ELSE ScanEntries(IF Head(entries).level = "error"
                     THEN AddPatterns(patterns, Head(entries).message, 1) ELSE patterns,
                   Tail(entries))

\* extractErrorPatterns: Array.from(patterns).
extractErrorPatterns(entries) == ScanEntries(<<>>, entries)

(* ------------------------- calls of the LogParser ---------------------- *)
IdleLp == [op |-> "none"]

\* parseLogLine(line) is called and returns.
ClassifyLine(lines) ==
  /\ lp.op = "none"
  /\ \E line \in lines :
       lp' = [op |-> "parseLogLine", arg |-> line, ret |-> parseLogLine(line)]
  /\ UNCHANGED <<engineVars, servers, clients, regVars, post>>

\* The aggregation of parseLogFiles (lines 364-382) runs over the local array
\* `entries`. The batches offered include the one array the shipped
\* parseLogFiles puts there, the sample entries.
AggregateEntries(batches) ==
  /\ lp.op = "none"
  /\ \E entries \in batches :
       lp' = [op |-> "aggregate", arg |-> entries, ret |-> Aggregate(entries)]
  /\ UNCHANGED <<engineVars, servers, clients, regVars, post>>

\* extractErrorPatterns(entries) is called and returns.
ExtractPatterns(batches) ==
  /\ lp.op = "none"
  /\ \E entries \in batches :
       lp' = [op |-> "extractErrorPatterns", arg |-> entries,
              ret |-> extractErrorPatterns(entries)]
  /\ UNCHANGED <<engineVars, servers, clients, regVars, post>>

\* extractSearchTerms(logs, rootCause) of the AnalysisEngine is called and
\* returns.
ExtractSearchTerms(batches, rootCauses) ==
  /\ lp.op = "none"
  /\ \E entries \in batches, rootCause \in rootCauses :
       lp' = [op |-> "extractSearchTerms", arg |-> entries, rootCause |-> rootCause,
              ret |-> extractSearchTerms(Batch(entries), rootCause)]
  /\ UNCHANGED <<engineVars, servers, clients, regVars, post>>

(* ------------------------ POST handler (page.tsx) ---------------------- *)
IdlePost ==
  [pc |-> "idle", body |-> [kind |-> "none"], built |-> {}, parseCalls |-> 0,
   parsedLogs |-> Null, status |-> 0]

\* What lines 43-53 construct.
Collaborators == {"aiProvider", "mcpManager", "logParser", "analysisEngine"}

\* logs && logs.length > 0
HasLogs(logs) == logs.t = "arr" /\ Len(logs.a) > 0

\* The request analyze() is called with (lines 64-70).
PostRequest(parsedLogs) ==
  [logs |-> IF parsedLogs.t = "null" THEN NoLogs ELSE Batch(parsedLogs.o.entries),
   includeFixes |-> "true", includeTests |-> "true", includeCodeAnalysis |-> "true"]

\* Mutant of PostCall: the collaborators are built before the credential is
\* looked at.
PostCallBuildsFirst(bodies) ==
  /\ post.pc = "idle" /\ pc = "idle"
  /\ \E body \in bodies :
       IF body.kind = "invalid"
         THEN /\ post' = [post EXCEPT !.body = body, !.pc = "done", !.status = 500]
              /\ UNCHANGED <<servers, clients, clientMap, stamp>>
         ELSE /\ post' = IF ~Truthy(body.apiKey)
                           THEN [post EXCEPT !.body = body, !.built = Collaborators,
                                             !.pc = "done", !.status = 400]
                           ELSE [post EXCEPT !.body = body, !.built = Collaborators,
                                             !.pc = IF HasLogs(body.logs) THEN "parsing"
                                                    ELSE "analyzing",
                                             !.parseCalls = IF HasLogs(body.logs) THEN 1
                                                            ELSE 0]
              /\ servers' = initializeDefaultServers
              /\ clients' = {}
              /\ clientMap' = [id \in ServerIds |-> NoClient]
              /\ stamp' = 0
  /\ UNCHANGED <<engineVars, calls, hist, lp>>

\* POST up to its first await after request.json(): the body is read, the
\* credential is checked, the collaborators are built (new MCPManager() runs
\* initializeDefaultServers), and parseLogFiles or analyze is called. A body
\* that request.json() rejects lands in the catch block.
PostCall(bodies) ==
  /\ post.pc = "idle" /\ pc = "idle"
  /\ \E body \in bodies :
       IF body.kind = "invalid"
         THEN /\ post' = [post EXCEPT !.body = body, !.pc = "done", !.status = 500]
              /\ UNCHANGED <<servers, clients, clientMap, stamp>>
       ELSE IF ~Truthy(body.apiKey)
         THEN /\ post' = [post EXCEPT !.body = body, !.pc = "done", !.status = 400]
              /\ UNCHANGED <<servers, clients, clientMap, stamp>>
         ELSE /\ post' = [post EXCEPT !.body = body, !.built = Collaborators,
                                      !.pc = IF HasLogs(body.logs) THEN "parsing"
                                             ELSE "analyzing",
                                      !.parseCalls = IF HasLogs(body.logs) THEN 1 ELSE 0]
              /\ servers' = initializeDefaultServers
              /\ clients' = {}
              /\ clientMap' = [id \in ServerIds |-> NoClient]
              /\ stamp' = 0
  /\ UNCHANGED <<engineVars, calls, hist, lp>>

\* parseLogFiles settles (line 60).
PostParsed ==
  /\ post.pc = "parsing"
  /\ post' = [post EXCEPT !.pc = "analyzing", !.parsedLogs = Obj(parseLogFiles(post.body.logs))]
  /\ UNCHANGED <<engineVars, servers, clients, regVars, lp>>

\* analysisEngine.analyze(...) is called.
PostAnalyze ==
  /\ post.pc = "analyzing"
  /\ AnalyzeStart({PostRequest(post.parsedLogs)})

\* analyze() settles: the JSON response of lines 72-81, or the catch block.
PostRespond ==
  /\ post.pc = "analyzing"
  /\ pc \in {"done", "thrown"}
  /\ post' = [post EXCEPT !.pc = "done", !.status = IF pc = "done" THEN 200 ELSE 500]
  /\ UNCHANGED <<engineVars, servers, clients, regVars, lp>>

(* ------------------------------- inputs -------------------------------- *)
\* A member list with the given fields; a field given as Undef is left out.
MembersOf(fields) == [k \in {q \in DOMAIN fields : fields[q] # Undef} |-> fields[k]]

Fill(shape, o) ==
  [i \in 1..Len(shape) |-> IF shape[i] = "M" THEN Members(o) ELSE Ch(shape[i])]

GoodVerdict ==
  [rootCause |-> Str("db is down"), affectedComponents |-> Arr(<<Str("api")>>),
   confidence |-> Num(9), reasoning |-> Str("the pool is exhausted")]

RootCauseValues == {Undef, Str(""), Str("db is down"), Num(42)}
ConfidenceValues == {Undef, Num(0), Num(7), Num(10), Num(15), Str("high")}
ComponentValues == {Undef, Arr(<<Str("api")>>), Str("api")}
ReasoningValues == {Undef, Str("the pool is exhausted"), Num(42)}

VerdictBodies ==
  {MembersOf([GoodVerdict EXCEPT !.rootCause = rc, !.confidence = cf]) :
     rc \in RootCauseValues, cf \in ConfidenceValues}
  \cup {MembersOf([GoodVerdict EXCEPT !.affectedComponents = ac, !.reasoning = rs]) :
          ac \in ComponentValues, rs \in ReasoningValues}

\* Every text of at most MaxTextLen chunks of prose, braces and a member list.
VerdictTexts ==
  {Fill(shape, o) : shape \in SeqsUpTo({"p", "{", "}", "M"}, MaxTextLen), o \in VerdictBodies}

VerdictOutcomes == {OracleThrow} \cup {OracleText(t) : t \in VerdictTexts}

ObjText(o) == <<Ch("{"), Members(o), Ch("}")>>

\* The verdict responses of the whole-pipeline specification.
PipelineVerdictOutcomes ==
  {OracleThrow,
   OracleText(<<Ch("p")>>),
   OracleText(<<Ch("p")>> \o ObjText(MembersOf(GoodVerdict)) \o <<Ch("p")>>),
   OracleText(ObjText(MembersOf([GoodVerdict EXCEPT !.rootCause = Num(42),
                                                     !.confidence = Num(15)]))),
   OracleText(ObjText(MembersOf([GoodVerdict EXCEPT !.rootCause = Undef,
                                                     !.confidence = Num(0)]))),
   \* a root cause with no word of three letters
   OracleText(ObjText(MembersOf([GoodVerdict EXCEPT !.rootCause = Str("io")])))}

GoodFix ==
  [description |-> Str("close the pool"), priority |-> Str("low"),
   type |-> Str("configuration"), code |-> Str("pool.end()"),
   filePath |-> Str("src/db.ts"), explanation |-> Str("frees connections")]

FixBodies ==
  {MembersOf(GoodFix),
   MembersOf([GoodFix EXCEPT !.priority = Str("urgent"), !.type = Str("hotfix")]),
   MembersOf([GoodFix EXCEPT !.priority = Undef, !.type = Undef, !.code = Undef]),
   MembersOf([GoodFix EXCEPT !.priority = Num(1), !.filePath = Num(7)])}

\* A fix response: "O" stands for one object { members }, "N" for null.
RECURSIVE FillFix(_, _)
FillFix(shape, o) ==
  IF shape = <<>> THEN <<>>
  ELSE (CASE Head(shape) = "O" -> ObjText(o)
          [] Head(shape) = "N" -> <<Lit(Null)>>
          [] OTHER -> <<Ch(Head(shape))>>)
       \o FillFix(Tail(shape), o)

FixTexts ==
  {FillFix(shape, o) : shape \in SeqsUpTo({"p", "[", "]", "O", "N"}, MaxTextLen),
                       o \in FixBodies}

FixOutcomes == {OracleThrow} \cup {OracleText(t) : t \in FixTexts}

PipelineFixOutcomes ==
  {OracleThrow,
   OracleText(<<Ch("p")>>),
   OracleText(<<Ch("["), Ch("]")>>),
   OracleText(<<Ch("p"), Ch("[")>> \o ObjText(MembersOf(GoodFix))
              \o ObjText(MembersOf([GoodFix EXCEPT !.code = Undef]))
              \o ObjText(MembersOf([GoodFix EXCEPT !.priority = Str("urgent"),
                                                   !.filePath = Str("app.py")]))
              \o ObjText(MembersOf(GoodFix)) \o <<Ch("]")>>),
   \* four fixes that all carry code and a file path
   OracleText(<<Ch("[")>> \o ObjText(MembersOf(GoodFix)) \o ObjText(MembersOf(GoodFix))
              \o ObjText(MembersOf(GoodFix)) \o ObjText(MembersOf(GoodFix))
              \o <<Ch("]")>>)}

GoodTest ==
  [description |-> Str("closes the pool"), framework |-> Str("mocha"),
   code |-> Str("it('closes')"), filePath |-> Str("test/db.spec.ts")]

PipelineTestOutcomes ==
  {OracleThrow,
   OracleText(<<Ch("p")>>),
   OracleText(ObjText(MembersOf([GoodTest EXCEPT !.filePath = Undef])))}

Requests ==
  [logs : {NoLogs, Batch(<<>>), Batch(generateSampleEntries)},
   includeFixes : FlagValues, includeTests : FlagValues, includeCodeAnalysis : FlagValues]

\* The registry as connectServer/disconnectServer leave it: a client is cached
\* for exactly the servers flagged connected.
RegistryStates == [ServerIds -> BOOLEAN]

\* Log lines of the five formats, a line no format matches, and JSON lines
\* that are not objects.
BracketedErrorLine ==
  <<Tk("["), Ts("iso", "2024-06-14 12:00:00"), Tk("]"), Tk("sp"), W("ERROR"), Tk(":"),
    Tk("sp"), Txt("database connection timeout")>>
JsonWarnLine ==
  <<Json(Obj([level |-> Str("warn"), message |-> Str("disk almost full")]))>>
GarbageLine == <<Txt("%%% not a log line %%%")>>
NginxLine ==
  <<Ts("slash", "2024/06/14 12:00:00"), Tk("sp"), Tk("["), W("error"), Tk("]"), Tk("sp"),
    Txt("upstream timed out")>>
LogInputs ==
  {<<BracketedErrorLine, JsonWarnLine, GarbageLine>>,
   <<GarbageLine>>,
   <<NginxLine, JsonWarnLine>>,
   <<JsonWarnLine>>}

\* Request bodies: one that request.json() rejects, and JSON bodies with and
\* without a credential and with and without logs.
PostBodies ==
  {[kind |-> "invalid"]}
  \cup {[kind |-> "json", apiKey |-> k, logs |-> l] :
          k \in {Undef, Str(""), Str("sk-test")},
          l \in {Undef, Arr(<<>>)} \cup {Arr(ls) : ls \in LogInputs}}

\* Lines for the classifier: every format with every level word and every
\* kind of gap, with either kind of timestamp, and JSON lines of every shape.
LevelWords == {"ERROR", "WARN", "INFO", "DEBUG", "FATAL", "NOTICE", "error", "warn"}
IsoStamp == Ts("iso", "2024-06-14 12:00:00")
SlashStamp == Ts("slash", "2024/06/14 12:00:00")
Stamps == {IsoStamp, SlashStamp}
LineMessage == Txt("upstream timed out")
Gaps == {<<Tk("sp")>>, <<Tk("tab")>>, <<Tk("sp"), Tk("sp")>>}

StandardLines ==
  {<<Tk("["), IsoStamp, Tk("]")>> \o g1 \o <<W(l), Tk(":")>> \o g2 \o <<LineMessage>> :
     l \in LevelWords, g1 \in Gaps, g2 \in Gaps}
ApacheLines ==
  {<<Tk("["), IsoStamp, Tk("]")>> \o g1 \o <<Tk("["), W(l), Tk("]")>> \o g2
     \o <<LineMessage>> : l \in LevelWords, g1 \in Gaps, g2 \in Gaps}
NginxLines ==
  {<<ts>> \o g1 \o <<Tk("["), W(l), Tk("]")>> \o g2 \o <<LineMessage>> :
     ts \in Stamps, l \in {"error", "NOTICE"}, g1 \in Gaps, g2 \in Gaps}
ApplicationLines ==
  {<<ts>> \o g1 \o <<W(l)>> \o g2 \o <<LineMessage>> :
     ts \in Stamps, l \in {"INFO", "FATAL"}, g1 \in Gaps, g2 \in Gaps}
\* Lines cut short or without structure.
BrokenLines ==
  {<<>>, <<Tk("sp")>>, GarbageLine,
   <<Tk("["), IsoStamp, Tk("]"), Tk("sp"), W("ERROR"), Tk(":")>>,
   <<Tk("["), IsoStamp, Tk("]"), Tk("sp"), W("ERROR"), Tk(":"), Tk("sp")>>,
   <<Tk("["), IsoStamp, Tk("]"), Tk("sp"), W("ERROR"), Tk("sp"), LineMessage>>,
   <<Tk("["), Tk("]"), Tk("sp"), W("ERROR"), Tk(":"), Tk("sp"), LineMessage>>,
   <<IsoStamp, Tk("sp"), W("INFO")>>,
   <<SlashStamp, Tk("sp"), Tk("["), W("error"), Tk("]")>>}

\* JSON objects: for each group of aliases, which of them the object carries.
\* Each alias has a value of its own, so the alias a field was read from shows.
TimestampMembers ==
  {EmptyMembers, [timestamp |-> Str("ts of timestamp")], [time |-> Str("ts of time")],
   "@timestamp" :> Str("ts of @timestamp"),
   [timestamp |-> Str("ts of timestamp"), time |-> Str("ts of time")],
   [time |-> Str("ts of time")] @@ ("@timestamp" :> Str("ts of @timestamp"))}
LevelMembers ==
  {EmptyMembers, [level |-> Str("ERROR")], [severity |-> Str("Warn")],
   [level |-> Str("DEBUG"), severity |-> Str("Critical")],
   [level |-> Num(3)], [level |-> Str(""), severity |-> Str("Critical")]}
MessageMembers ==
  {EmptyMembers, [message |-> Str("text of message")], [msg |-> Str("text of msg")],
   [message |-> Str("text of message"), msg |-> Str("text of msg")]}
SourceMembers ==
  {EmptyMembers, [service |-> Str("billing")], [source |-> Str("gateway")],
   [logger |-> Str("root")], [service |-> Str("billing"), logger |-> Str("root")]}
StackMembers ==
  {EmptyMembers, [stack |-> Str("at stack")], [stackTrace |-> Str("at stackTrace")],
   [stack |-> Str("at stack"), stackTrace |-> Str("at stackTrace")]}
ContextMembers ==
  {EmptyMembers, [context |-> Str("ctx")], [meta |-> Str("meta")],
   [context |-> Str("ctx"), meta |-> Str("meta")]}
JsonObjects ==
  {Obj(t @@ l @@ m @@ src @@ st @@ c) :
     t \in TimestampMembers, l \in LevelMembers, m \in MessageMembers,
     src \in SourceMembers, st \in StackMembers, c \in ContextMembers}
\* JSON texts that are not objects.
JsonScalars ==
  {Num(42), Num(0), Str("hello"), Str(""), Bool(TRUE), Bool(FALSE), Null,
   Arr(<<>>), Arr(<<Num(1)>>)}
JsonLines == {<<Json(v)>> : v \in JsonObjects \cup JsonScalars}

Lines ==
  StandardLines \cup ApacheLines \cup NginxLines \cup ApplicationLines \cup BrokenLines
    \cup JsonLines

\* Entries for the aggregator: timestamps of a Monday, a Wednesday, a Friday
\* and a Sunday and one that is no date, sources repeated and empty.
TypedEntry(timestamp, level, message, source) ==
  [timestamp |-> timestamp, level |-> level, message |-> message, source |-> source]
AggregatePool ==
  {TypedEntry("2024-06-14T12:00:00Z", "error", "Out of memory", "database"),
   TypedEntry("2024-06-14T12:00:05Z", "warn", "Out of memory", "system"),
   TypedEntry("2024-06-10T09:30:00Z", "warn", "Out of memory", "api"),
   TypedEntry("2024-06-12T23:59:59Z", "info", "Out of memory", "api"),
   TypedEntry("2024-06-16T08:00:00Z", "warn", "Out of memory", ""),
   TypedEntry("yesterday", "error", "Out of memory", "database")}

\* Entries for extractErrorPatterns: messages with none, one and several of
\* the keywords, in upper and lower case, at every level.
PatternPool ==
  {TypedEntry("2024-06-14T12:00:00Z", "error",
              "Database connection failed: Connection timeout after 30s", "database"),
   TypedEntry("2024-06-14T12:00:00Z", "error", "Read TIMEOUT on Connection 7", "api"),
   TypedEntry("2024-06-14T12:00:00Z", "error", "Unauthorized: permission denied", "api"),
   TypedEntry("2024-06-14T12:00:00Z", "error", "No space left on device", "system"),
   TypedEntry("2024-06-14T12:00:00Z", "error", "all quiet", "system"),
   TypedEntry("2024-06-14T12:00:00Z", "warn", "Out of memory", "system"),
   TypedEntry("2024-06-14T12:00:00Z", "info", "Network unreachable", "api")}

\* Six error entries with one word each, oldest first and newest first, and
\* the same with a warn entry in between.
SixErrors ==
  <<TypedEntry("2024-06-10T09:30:00Z", "error", "pool", "api"),
    TypedEntry("2024-06-12T23:59:59Z", "error", "heap", "api"),
    TypedEntry("2024-06-14T12:00:00Z", "error", "lock", "api"),
    TypedEntry("2024-06-14T12:00:05Z", "error", "port", "api"),
    TypedEntry("2024-06-14T12:00:10Z", "error", "node", "api"),
    TypedEntry("2024-06-16T08:00:00Z", "error", "disk", "api")>>
Reverse(s) == [i \in 1..Len(s) |-> s[Len(s) + 1 - i]]
TermBatches ==
  {SixErrors, Reverse(SixErrors), generateSampleEntries, <<>>,
   SubSeq(SixErrors, 1, 3)
     \o <<TypedEntry("2024-06-14T12:00:00Z", "warn", "Out of memory", "system")>>
     \o SubSeq(SixErrors, 4, 6)}
TermRootCauses == {Str("io"), Str("db is down"), Str("Unable to determine root cause")}

MaxBatchLen == 3
AggregateBatches == SeqsUpTo(AggregatePool, MaxBatchLen) \cup {generateSampleEntries}
PatternBatches == SeqsUpTo(PatternPool, MaxBatchLen) \cup {generateSampleEntries}

(* ---------------------------- specifications --------------------------- *)
InitEngine ==
  /\ pc = "idle"
  /\ request = [logs |-> NoLogs, includeFixes |-> "absent", includeTests |-> "absent",
                includeCodeAnalysis |-> "absent"]
  /\ aiResponse = [kind |-> "none"]
  /\ analysisResult = NoResult
  /\ thrown = "none"
  /\ oracleCalls = <<>>
  /\ ca = IdleCa
  /\ tg = IdleTg
  /\ searchCalls = {}

\* No registry call and no POST request has been issued.
InitIdle ==
  /\ calls = [p \in Slots |-> NoCall]
  /\ post = IdlePost
  /\ lp = IdleLp

\* The client Map of a registry whose servers flagged in srv were connected
\* earlier, in the order of ServerOrder.
Preconnected(srv) ==
  [id \in ServerIds |->
     IF srv[id]
       THEN LET i == CHOOSE k \in 1..Len(ServerOrder) : ServerOrder[k] = id
            IN [stamp |-> i, client |-> MaxCalls + i]
       ELSE NoClient]

Init ==
  /\ InitEngine
  /\ servers \in RegistryStates
  /\ clients = {id \in ServerIds : servers[id]}
  /\ clientMap = Preconnected(servers)
  /\ stamp = Len(ServerOrder)
  /\ hist = [okSince |-> servers, teardowns |-> <<>>]
  /\ InitIdle

Next ==
  \/ AnalyzeStart(Requests)
  \/ VerdictReturn(PipelineVerdictOutcomes)
  \/ SearchReturn
  \/ FixesReturn(PipelineFixOutcomes)
  \/ TestReturn(PipelineTestOutcomes)

Spec == Init /\ [][Next]_vars

\* Verdict extraction alone: a request with every optional phase switched off,
\* and every verdict text within the bound.
ParseRequests ==
  {[logs |-> NoLogs, includeFixes |-> "false", includeTests |-> "false",
    includeCodeAnalysis |-> "false"]}

InitFresh ==
  /\ InitEngine
  /\ servers = initializeDefaultServers
  /\ clients = {}
  /\ clientMap = [id \in ServerIds |-> NoClient]
  /\ stamp = 0
  /\ hist = IdleHist
  /\ InitIdle

NextParse ==
  \/ AnalyzeStart(ParseRequests)
  \/ VerdictReturn(VerdictOutcomes)

SpecParse == InitFresh /\ [][NextParse]_vars

\* Fix generation alone: only includeFixes on, one verdict, every fix text
\* within the bound.
FixRequests ==
  {[logs |-> NoLogs, includeFixes |-> f, includeTests |-> "false",
    includeCodeAnalysis |-> "false"] : f \in {"absent", "true"}}

NextFixes ==
  \/ AnalyzeStart(FixRequests)
  \/ VerdictReturn({OracleText(ObjText(MembersOf(GoodVerdict)))})
  \/ FixesReturn(FixOutcomes)

SpecFixes == InitFresh /\ [][NextFixes]_vars

\* The registry alone: up to MaxCalls calls of connectServer, disconnectServer
\* and searchCode on a freshly constructed MCPManager, interleaved at their
\* awaits.
NextRegistry ==
  \/ \E p \in Slots, id \in CallIds : ConnectCall(p, id)
  \/ \E p \in Slots : ConnectReturn(p)
  \/ \E p \in Slots, id \in CallIds : DisconnectCall(p, id)
  \/ \E p \in Slots : DisconnectReturn(p)
  \/ \E p \in Slots, target \in CallIds \cup {FanOut} : SearchCall(p, target)
  \/ \E p \in Slots : SearchClientReturn(p)

SpecRegistry == InitFresh /\ [][NextRegistry]_vars

\* One request through the POST handler. No server is connected on the
\* registry the handler builds, so no searchCode call is ever awaited.
NextPost ==
  \/ PostCall(PostBodies)
  \/ PostParsed
  \/ PostAnalyze
  \/ VerdictReturn(PipelineVerdictOutcomes)
  \/ FixesReturn(PipelineFixOutcomes)
  \/ TestReturn(PipelineTestOutcomes)
  \/ PostRespond

SpecPost == InitFresh /\ [][NextPost]_vars

\* The functions over log lines and log batches alone: one call of
\* parseLogLine, of the aggregation, of extractErrorPatterns or of the
\* engine's extractSearchTerms, on every input of the sets above.
NextLogParser ==
  \/ ClassifyLine(Lines)
  \/ AggregateEntries(AggregateBatches)
  \/ ExtractPatterns(PatternBatches)
  \/ ExtractSearchTerms(TermBatches, TermRootCauses)

SpecLogParser == InitFresh /\ [][NextLogParser]_vars

(* ================================ claims =============================== *)
Returned == pc = "done"
ResponseText == aiResponse.text
GotText == aiResponse.kind = "text"

\* Some '{' of the text has a '}' after it.
HasBraceSpan(text) ==
  \E i, j \in 1..Len(text) : i < j /\ text[i].c = "{" /\ text[j].c = "}"
HasBracketSpan(text) ==
  \E i, j \in 1..Len(text) : i < j /\ text[i].c = "[" /\ text[j].c = "]"

\* C1: analyze() never ends by propagating an oracle-call failure to its
\* caller: whatever the oracle does at the verdict, fix or test call, the call
\* does not reject with the oracle's error.
C1_NeverPropagatesOracleFailure == ~(pc = "thrown" /\ thrown = "oracle")

\* C2: when the oracle text has no '{...}' span, or the span fails to parse,
\* verdict extraction does not throw and returns reasoning = the whole raw text,
\* confidence 0.3, the parsing-failed root cause and empty affectedComponents,
\* suggestedFixes and unitTests.
C2_FallbackVerdict ==
  GotText =>
    /\ pc # "thrown"
    /\ (Returned /\ (~HasBraceSpan(ResponseText)
                     \/ ~JSONParse(GreedySpan(ResponseText, "{", "}")).ok))
         => /\ analysisResult.reasoning = [t |-> "str", x |-> ResponseText]
            /\ analysisResult.confidence = Num(3)
            /\ analysisResult.rootCause
                 = Str("Error analysis completed, but response parsing failed")
            /\ analysisResult.affectedComponents = Arr(<<>>)
            /\ analysisResult.suggestedFixes = <<>>
            /\ analysisResult.unitTests = <<>>

\* C2 witness: a text with a brace span that is not JSON was answered by the
\* fallback verdict.
C2_Witness ==
  /\ Returned /\ GotText
  /\ HasBraceSpan(ResponseText)
  /\ ~JSONParse(GreedySpan(ResponseText, "{", "}")).ok
  /\ analysisResult.confidence = Num(3)

\* The object the oracle's JSON span parsed to (when it parsed).
ParsedObject == JSONParse(GreedySpan(ResponseText, "{", "}"))
ParsedOk == GotText /\ HasBraceSpan(ResponseText) /\ ParsedObject.ok

\* C3: when the oracle's object parses, a field that is missing or of the wrong
\* type is replaced by its default.
C3_WrongTypeGetsDefault ==
  (Returned /\ ParsedOk) =>
    /\ Get(ParsedObject.v, "rootCause").t # "str"
         => analysisResult.rootCause = Str("Unable to determine root cause")
    /\ Get(ParsedObject.v, "affectedComponents").t # "arr"
         => analysisResult.affectedComponents = Arr(<<>>)
    /\ Get(ParsedObject.v, "confidence").t # "num"
         => analysisResult.confidence = Num(5)
    /\ Get(ParsedObject.v, "reasoning").t # "str"
         => analysisResult.reasoning = Str("Analysis completed")

\* C4: the confidence of every returned result is a number in [0, 1]
\* (0..10 tenths).
C4_ConfidenceInUnitInterval ==
  Returned => /\ analysisResult.confidence.t = "num"
              /\ analysisResult.confidence.n \in 0..10

\* C5: when the oracle's object carries a confidence that is a number in [0, 1],
\* 0 included, the result's confidence is that number.
C5_ConfidenceAsReported ==
  (Returned /\ ParsedOk /\ Get(ParsedObject.v, "confidence").t = "num"
            /\ Get(ParsedObject.v, "confidence").n \in 0..10)
    => analysisResult.confidence = Get(ParsedObject.v, "confidence")

\* A verdict member list whose four fields are present, of the right type and
\* not falsy, so that no default applies to it.
WellFormedVerdict(o) ==
  /\ {"rootCause", "affectedComponents", "confidence", "reasoning"} \subseteq DOMAIN o
  /\ o.rootCause.t = "str" /\ o.rootCause.s # ""
  /\ o.affectedComponents.t = "arr"
  /\ o.confidence.t = "num" /\ o.confidence.n \in 1..10
  /\ o.reasoning.t = "str" /\ o.reasoning.s # ""

\* The positions where a complete object { members } starts.
ObjectStarts(text) ==
  {i \in 1..Len(text) - 2 :
     text[i].c = "{" /\ text[i + 1].c = "M" /\ text[i + 2].c = "}"}

\* C6: when the text holds a well-formed verdict object, the verdict carries
\* the fields of the first such object, whatever precedes and follows it.
C6_FirstObjectWins ==
  (Returned /\ GotText /\ ObjectStarts(ResponseText) # {}) =>
    LET o == ResponseText[Min(ObjectStarts(ResponseText)) + 1].o
    IN WellFormedVerdict(o) =>
         /\ analysisResult.rootCause = o.rootCause
         /\ analysisResult.affectedComponents = o.affectedComponents
         /\ analysisResult.confidence = o.confidence
         /\ analysisResult.reasoning = o.reasoning

\* The fix response is one generateFixes cannot use: the call threw, the text
\* has no '[...]' span, the span is not JSON, or an element cannot be normalised.
FixResponseUnusable ==
  \/ aiResponse.kind = "throw"
  \/ /\ GotText
     /\ \/ ~HasBracketSpan(ResponseText)
        \/ LET fixes == JSONParse(GreedySpan(ResponseText, "[", "]"))
           IN \/ ~fixes.ok
              \/ \E i \in 1..Len(fixes.v.a) : fixes.v.a[i] = Null

AfterFixCall == Len(oracleCalls) > 0 /\ oracleCalls[Len(oracleCalls)] = "fixes"
                /\ pc # "awaitFixes"

\* C7: when the fix call throws, or its text has no '[...]' span, or the span
\* fails to parse or normalise, generateFixes does not throw and returns exactly
\* one fix, of priority 'high' and type 'code'.
C7_FixFallback ==
  (AfterFixCall /\ FixResponseUnusable) =>
    /\ Returned
    /\ Len(analysisResult.suggestedFixes) = 1
    /\ analysisResult.suggestedFixes[1].priority = Str("high")
    /\ analysisResult.suggestedFixes[1].type = Str("code")

\* C7 witness: a '[...]' span that parses but holds an element that cannot be
\* normalised was answered by the single fallback fix.
C7_Witness ==
  /\ AfterFixCall /\ Returned /\ GotText
  /\ HasBracketSpan(ResponseText)
  /\ JSONParse(GreedySpan(ResponseText, "[", "]")).ok
  /\ FixResponseUnusable
  /\ Len(analysisResult.suggestedFixes) = 1

\* C8: a result returned for a request with fix generation on holds at least
\* one suggested fix.
C8_AtLeastOneFix ==
  (Returned /\ Flag(request.includeFixes)) => Len(analysisResult.suggestedFixes) >= 1

\* C9: every fix of a returned result has priority high, medium or low and
\* type code, configuration or infrastructure.
C9_FixEnums ==
  Returned =>
    \A i \in 1..Len(analysisResult.suggestedFixes) :
      /\ analysisResult.suggestedFixes[i].priority
           \in {Str("high"), Str("medium"), Str("low")}
      /\ analysisResult.suggestedFixes[i].type
           \in {Str("code"), Str("configuration"), Str("infrastructure")}

\* C10 as stated: in a returned result codeAnalysis is absent only when the
\* code-analysis flag was off.
C10_AbsentOnlyWhenFlagOff ==
  (Returned /\ analysisResult.codeAnalysis = Undef)
    => ~Flag(request.includeCodeAnalysis)

\* C10 amended: in a returned result codeAnalysis is absent exactly when the
\* code-analysis flag was off or no log batch was supplied.
C10_AbsentIffFlagOffOrNoLogs ==
  Returned =>
    ((analysisResult.codeAnalysis = Undef)
       <=> ~(Flag(request.includeCodeAnalysis) /\ request.logs.present))

\* C10 witness: a request that leaves the flag out and supplies a batch got a
\* code analysis that queried a connected server.
C10_Witness ==
  /\ Returned
  /\ request.includeCodeAnalysis = "absent"
  /\ request.logs.present
  /\ analysisResult.codeAnalysis # Undef
  /\ analysisResult.codeAnalysis.mcpServerUsed # <<>>

(* ---------------------- claims on code analysis ------------------------ *)
\* The verdict was parsed and the code-analysis phase was entered.
CodeAnalysisRan ==
  /\ analysisResult # NoResult
  /\ Flag(request.includeCodeAnalysis)
  /\ request.logs.present

NoneConnected == \A id \in ServerIds : ~servers[id]

\* C11: when code analysis runs and no backend is connected, the result holds
\* the placeholder (no affected files, one potential-issue note, no server
\* used) and no search call was issued to any backend.
C11_PlaceholderWithoutBackends ==
  (CodeAnalysisRan /\ NoneConnected) =>
    /\ analysisResult.codeAnalysis # Undef
    /\ analysisResult.codeAnalysis.affectedFiles = <<>>
    /\ Len(analysisResult.codeAnalysis.potentialIssues) = 1
    /\ analysisResult.codeAnalysis.mcpServerUsed = <<>>
    /\ searchCalls = {}

\* C11 witness: an analysis with the flag on and a log batch returned while
\* no server was connected.
C11_Witness ==
  /\ Returned
  /\ CodeAnalysisRan
  /\ NoneConnected
  /\ analysisResult.codeAnalysis.potentialIssues
       = <<"No MCP servers connected for code analysis">>

(* ----------------------- claims on the POST handler -------------------- *)
NoCredential == post.body.kind = "json" /\ ~Truthy(post.body.apiKey)

\* C12: a request without a credential is answered with status 400 before any
\* work: nothing is constructed, no log parsing happens, no oracle call is
\* issued and analyze() is never entered.
C12_NoCredentialRejectedFirst ==
  NoCredential =>
    /\ post.pc = "done"
    /\ post.status = 400
    /\ post.built = {}
    /\ post.parseCalls = 0
    /\ post.parsedLogs = Null
    /\ oracleCalls = <<>>
    /\ pc = "idle"

\* C12 witness: a request that carries log lines but an empty credential was
\* rejected.
C12_Witness ==
  /\ NoCredential
  /\ HasLogs(post.body.logs)
  /\ post.status = 400

\* C13 as stated: the batch folded into the analysis request is the
\* classification and aggregation of the supplied lines: totalCount is the
\* number of lines the classifier recognises, errorCount and warnCount tally
\* those records.
C13_BatchIsClassifiedInput ==
  (post.parsedLogs # Null) =>
    LET records == parseLogContent(post.body.logs.a)
    IN /\ post.parsedLogs.o.totalEntries = Len(records)
       /\ post.parsedLogs.o.errorCount = CountLevel(records, "error")
       /\ post.parsedLogs.o.warnCount = CountLevel(records, "warn")

(* ------------------------ claims on the registry ----------------------- *)
NothingCalled == \A p \in Slots : calls[p].op = "none"

\* Call p of operation op runs to its end in this step.
Finishes(p, op) == calls[p].pc # "done" /\ calls'[p].pc = "done" /\ calls'[p].op = op
\* Call p of operation op is issued in this step.
Issued(p, op) == calls[p].op = "none" /\ calls'[p].op = op

\* C14: the registry starts with the three default handles, all disconnected,
\* and a handle is connected only if a handshake for its id completed
\* successfully since the last disconnect of that id completed.
C14_ConnectedOnlyAfterHandshake ==
  /\ DOMAIN servers = {"github", "gitlab", "code-index"}
  /\ NothingCalled => \A id \in ServerIds : ~servers[id]
  /\ \A id \in ServerIds : servers[id] => hist.okSince[id]

\* C14 witness: a handle was connected, disconnected and connected again.
C14_Witness ==
  \E id \in ServerIds :
    /\ calls[1].op = "connect" /\ calls[1].id = id /\ calls[1].ret = "true"
    /\ calls[2].op = "disconnect" /\ calls[2].id = id /\ calls[2].ret = "ok"
    /\ calls[3].op = "connect" /\ calls[3].id = id /\ calls[3].ret = "true"
    /\ servers[id]

\* A connect call that ends without success leaves flags and cache alone.
FailureChangesNothing(p) ==
  calls'[p].ret # "true" => (servers' = servers /\ clients' = clients /\ clientMap' = clientMap)

\* C15 as stated: connect(id) never throws, for registered and unregistered
\* ids alike: it ends with a boolean, and after a failed handshake the handle
\* is as it was, disconnected with no session cached by this call.
C15_ConnectNeverThrows ==
  [][\A p \in Slots :
       Finishes(p, "connect") =>
         (calls'[p].ret \in {"true", "false"} /\ FailureChangesNothing(p))]_vars

\* C15 amended: connect(id) on a registered id never throws: it ends with a
\* boolean for every handshake outcome, and a failed handshake leaves the flag
\* and the session cache as they were; connect(id) on an id that is not
\* registered throws.
C15_ConnectThrowsOnlyForUnknownId ==
  [][\A p \in Slots :
       Finishes(p, "connect") =>
         /\ calls'[p].id \in ServerIds => calls'[p].ret \in {"true", "false"}
         /\ calls'[p].id \notin ServerIds => calls'[p].ret = "throw"
         /\ FailureChangesNothing(p)]_vars

\* C15 witness: a connect of an unregistered id threw, and a connect of a
\* registered id returned false and left the handle disconnected, no session
\* cached.
C15_Witness ==
  \E p, q \in Slots :
    /\ calls[p].op = "connect" /\ calls[p].id = UnknownId /\ calls[p].ret = "throw"
    /\ calls[q].op = "connect" /\ calls[q].ret = "false"
    /\ ~servers[calls[q].id]
    /\ clientMap[calls[q].id].client = 0

\* C16: when a disconnect ends, the handle is disconnected with no cached
\* session and nothing was thrown; a disconnect issued for an id with no cached
\* session (disconnected before, never connected, or not registered) changes
\* neither flags nor cache, calls no teardown and ends at once without throwing.
C16_DisconnectIdempotent ==
  [][\A p \in Slots :
       /\ Finishes(p, "disconnect") =>
            /\ calls'[p].ret = "ok"
            /\ calls'[p].id \in ServerIds =>
                 (~servers'[calls'[p].id] /\ clientMap'[calls'[p].id].client = 0)
       /\ (Issued(p, "disconnect") /\ calls'[p].id \notin Keys(clientMap)) =>
            /\ servers' = servers /\ clients' = clients /\ clientMap' = clientMap
            /\ hist'.teardowns = hist.teardowns
            /\ calls'[p].pc = "done" /\ calls'[p].ret = "ok"]_vars

\* C16 witness: a handle was connected and then disconnected twice; one
\* teardown was called in all.
C16_Witness ==
  \E id \in ServerIds :
    /\ calls[1].op = "connect" /\ calls[1].id = id /\ calls[1].ret = "true"
    /\ calls[2].op = "disconnect" /\ calls[2].id = id /\ calls[2].ret = "ok"
    /\ calls[3].op = "disconnect" /\ calls[3].id = id /\ calls[3].ret = "ok"
    /\ Len(hist.teardowns) = 1
    /\ ~servers[id]

SearchDone(p) == calls[p].op = "search" /\ calls[p].pc = "done"

\* C17 as stated: a search with an id whose backend is not connected fails,
\* it returns no result; with a connected id only that backend is queried.
C17_SearchByIdFailsWhenDisconnected ==
  \A p \in Slots :
    (SearchDone(p) /\ calls[p].id # FanOut) =>
      IF calls[p].id \in calls[p].snapshot
        THEN calls[p].asked = <<calls[p].id>>
        ELSE calls[p].ret = "throw"

\* The hits of the backends that answered, each with its backend id, in the
\* order the backends answered.
RECURSIVE HitsOfSucceeded(_)
HitsOfSucceeded(replies) ==
  IF replies = <<>> THEN <<>>
  ELSE LET r == Head(replies)
       IN (IF r.outcome.kind = "ok"
             THEN [i \in 1..Len(r.outcome.paths) |->
                     [path |-> r.outcome.paths[i], source |-> r.id]]
             ELSE <<>>)
          \o HitsOfSucceeded(Tail(replies))

Threw(p) == \E i \in 1..Len(calls[p].replies) : calls[p].replies[i].outcome.kind = "throw"

\* C18: in a fan-out search a backend whose searchCode throws does not abort
\* the call: the call goes on to the remaining backends, returns normally, and
\* its result is exactly the hits of the backends that succeeded, each tagged
\* with its backend id.
C18_ThrowingBackendIsolated ==
  \A p \in Slots :
    (calls[p].op = "search" /\ calls[p].id = FanOut /\ Threw(p)) =>
      /\ calls[p].ret # "throw"
      /\ calls[p].pc = "done" =>
           /\ calls[p].ret = "ok"
           /\ calls[p].results = HitsOfSucceeded(calls[p].replies)
           /\ \A i \in 1..Len(calls[p].results) :
                \E j \in 1..Len(calls[p].replies) :
                  /\ calls[p].replies[j].id = calls[p].results[i].source
                  /\ calls[p].replies[j].outcome.kind = "ok"

\* C18 witness: a fan-out over two backends returned although the first threw.
C18_Witness ==
  \E p \in Slots :
    /\ SearchDone(p) /\ calls[p].id = FanOut
    /\ Len(calls[p].replies) = 2
    /\ calls[p].replies[1].outcome.kind = "throw"
    /\ calls[p].replies[2].outcome.kind = "ok"
    /\ calls[p].ret = "ok"

\* No connect or disconnect overlapped search call p.
Undisturbed(p) ==
  /\ calls[p].quiet
  /\ \A q \in Slots : q > p => calls[q].op \in {"none", "search"}

Sum(f, n) == LET RECURSIVE S(_)
                 S(k) == IF k = 0 THEN 0 ELSE f[k] + S(k - 1)
             IN S(n)

\* C19: the result of a fan-out search that no connect or disconnect
\* overlapped is the concatenation of the hit lists of all the backends
\* connected when it was issued, each asked once, every hit tagged with its
\* backend id and none dropped; with no backend connected it is the empty
\* sequence, and no error is raised.
C19_FanOutConcatenatesAll ==
  \A p \in Slots :
    (SearchDone(p) /\ calls[p].id = FanOut /\ Undisturbed(p)) =>
      /\ calls[p].ret = "ok"
      /\ {calls[p].asked[i] : i \in 1..Len(calls[p].asked)} = calls[p].snapshot
      /\ Len(calls[p].asked) = Cardinality(calls[p].snapshot)
      /\ Len(calls[p].replies) = Len(calls[p].asked)
      /\ calls[p].results = HitsOfSucceeded(calls[p].replies)
      /\ Len(calls[p].results)
           = Sum([i \in 1..Len(calls[p].replies) |->
                    IF calls[p].replies[i].outcome.kind = "ok"
                      THEN Len(calls[p].replies[i].outcome.paths) ELSE 0],
                 Len(calls[p].replies))
      /\ calls[p].snapshot = {} => calls[p].results = <<>>

\* C19 witness: a fan-out over two connected backends, one of which found two
\* files and the other none, returned the two hits.
C19_Witness ==
  \E p \in Slots :
    /\ SearchDone(p) /\ calls[p].id = FanOut /\ Undisturbed(p)
    /\ Cardinality(calls[p].snapshot) = 2
    /\ Len(calls[p].results) = 2

InFlight(p) == calls[p].pc \in {"handshake", "teardown"}

\* C20 as stated: no state is reachable in which two handshakes, or a
\* handshake and a teardown, for the same id are in flight at once.
C20_MutationsSerializedPerId ==
  \A p, q \in Slots :
    (p # q /\ InFlight(p) /\ InFlight(q) /\ calls[p].id = calls[q].id)
      => (calls[p].pc = "teardown" /\ calls[q].pc = "teardown")

(* ------------------------- the log classifier -------------------------- *)
MatcherOrder == <<"standard", "json", "nginx", "apache", "application">>

Classified == lp.op = "parseLogLine"

\* The values a JSON value carries under the given keys.
Carried(json, keys) == {Get(json, k) : k \in keys} \ {Undef}

\* The source the record of each matcher has.
SourceOf(by, line, source) ==
  CASE by = "standard" -> source = "application"
    [] by = "json" -> source \in Carried(Trim(line)[1].v, {"service", "source", "logger"})
                                  \cup {Undef}
    [] by = "nginx" -> source = "nginx"
    [] by = "apache" -> source = "apache"
    [] by = "application" -> source = "application"

\* C21: parseLogLine calls the five matchers in the order bracketed timestamp,
\* JSON, slash date with bracketed level, bracketed timestamp with bracketed
\* level, ISO timestamp; it stops at the first that returns a record and
\* returns that record, whose source is 'application', the source the JSON
\* carries, 'nginx', 'apache', 'application' respectively; no later matcher is
\* called, and when none returns a record all five were called.
C21_FirstMatcherInOrderWins ==
  Classified =>
    LET r == lp.ret
        n == Len(r.tried)
    IN /\ n \in 1..5
       /\ r.tried = SubSeq(MatcherOrder, 1, n)
       /\ \A i \in 1..(n - 1) : ~ApplyFormat(MatcherOrder[i], lp.arg).ok
       /\ IF r.ok
            THEN /\ r.by = MatcherOrder[n]
                 /\ ApplyFormat(r.by, lp.arg).ok
                 /\ r.entry = ApplyFormat(r.by, lp.arg).entry
                 /\ SourceOf(r.by, lp.arg, r.entry.source)
            ELSE /\ n = 5
                 /\ ~ApplyFormat(MatcherOrder[5], lp.arg).ok

\* C21 witness: a line of the bracket-bracket form was classified by the
\* fourth matcher after the first three were tried, with source 'apache'.
C21_Witness ==
  /\ Classified /\ lp.ret.ok
  /\ lp.ret.by = "apache" /\ Len(lp.ret.tried) = 4
  /\ lp.ret.entry.source = "apache" /\ lp.ret.entry.level = "fatal"

IsBareJson(line) ==
  /\ Len(line) = 1 /\ line[1].k = "json"
  /\ line[1].v.t \in {"num", "str", "bool", "arr"}

\* C22 as stated: a line that is a bare JSON number, string, boolean or array
\* yields no record.
C22_BareJsonValueYieldsNoRecord ==
  (Classified /\ IsBareJson(lp.arg)) => ~lp.ret.ok

\* C23: parseLogLine never ends by throwing; a line on which the JSON matcher
\* throws (a text that is not JSON, the JSON null, an object whose level is a
\* number) is handed on to the third matcher, and is classified by the
\* matchers after the JSON one exactly as if the JSON matcher had returned
\* no record.
C23_ThrowingMatcherIsNonMatch ==
  Classified =>
    /\ ~IsThrown(lp.ret)
    /\ (IsThrown(JSONFields(lp.arg)) /\ ~parseStandardFormat(lp.arg).ok) =>
         /\ Len(lp.ret.tried) >= 3
         /\ lp.ret.tried[2] = "json" /\ lp.ret.tried[3] = "nginx"
         /\ lp.ret.ok <=> \/ parseNginxFormat(lp.arg).ok
                           \/ parseApacheFormat(lp.arg).ok
                           \/ parseApplicationFormat(lp.arg).ok
         /\ lp.ret.ok => lp.ret.by \in {"nginx", "apache", "application"}

\* C23 witness: a JSON object line whose level is a number was tried by all
\* five matchers and classified as no record, without an exception.
C23_Witness ==
  /\ Classified /\ Len(lp.arg) = 1 /\ lp.arg[1].k = "json"
  /\ Get(lp.arg[1].v, "level") = Num(3)
  /\ ~lp.ret.ok /\ ~IsThrown(lp.ret) /\ lp.ret.tried = MatcherOrder

\* C24 as stated: every record of a matcher other than the JSON one has a
\* level among error, warn, info and debug.
C24_NonJsonLevelIsOneOfFour ==
  (Classified /\ lp.ret.ok /\ lp.ret.by # "json") =>
    lp.ret.entry.level \in {"error", "warn", "info", "debug"}

\* The aliases, by number, under which the object carries a truthy value.
AliasesCarried(json, aliases) ==
  {i \in 1..Len(aliases) : aliases[i] \in DOMAIN json.o /\ Truthy(json.o[aliases[i]])}

\* The value under the first alias the object carries, else the default.
FirstAlias(json, aliases, default) ==
  IF AliasesCarried(json, aliases) = {} THEN default
  ELSE json.o[aliases[Min(AliasesCarried(json, aliases))]]

JsonObjectClassified ==
  /\ Classified /\ Len(lp.arg) = 1 /\ lp.arg[1].k = "json" /\ lp.arg[1].v.t = "obj"
  /\ lp.ret.ok

\* C25: the record of a JSON object line takes each field from the first of
\* its aliases that the object carries (timestamp, time, @timestamp; level,
\* severity; message, msg; service, source, logger; stack, stackTrace;
\* context, meta); the level is lowercased, severity is used when level is
\* absent, and the level is 'info' when both are absent.
C25_JsonAliasPrecedence ==
  JsonObjectClassified =>
    LET json == lp.arg[1].v
        e == lp.ret.entry
    IN /\ lp.ret.by = "json"
       /\ e.timestamp = FirstAlias(json, <<"timestamp", "time", "@timestamp">>, Undef)
       /\ e.level = Lower(FirstAlias(json, <<"level", "severity">>, Str("info")).s)
       /\ e.message = FirstAlias(json, <<"message", "msg">>, TextStr(lp.arg))
       /\ e.source = FirstAlias(json, <<"service", "source", "logger">>, Undef)
       /\ e.stackTrace = FirstAlias(json, <<"stack", "stackTrace">>, Undef)
       /\ e.context = FirstAlias(json, <<"context", "meta">>, Undef)
       /\ ({"level", "severity"} \cap DOMAIN json.o = {}) => e.level = "info"
       /\ (DOMAIN json.o \cap {"level", "severity"} = {"severity"}
             /\ json.o["severity"] = Str("Warn")) => e.level = "warn"

\* C25 witness: an object with severity 'Warn' and no level, with time and
\* @timestamp, with service and logger, gave a record with level 'warn', the
\* timestamp of time and the source of service.
C25_Witness ==
  /\ JsonObjectClassified
  /\ DOMAIN lp.arg[1].v.o \cap {"level", "severity"} = {"severity"}
  /\ {"time", "@timestamp", "service", "logger"} \subseteq DOMAIN lp.arg[1].v.o
  /\ lp.ret.entry.level = "warn"
  /\ lp.ret.entry.timestamp = Str("ts of time")
  /\ lp.ret.entry.source = Str("billing")

(* -------------------------- the log aggregator ------------------------- *)
Aggregated == lp.op = "aggregate"

IndicesAtLevel(entries, level) == {i \in 1..Len(entries) : entries[i].level = level}
NonEmptySources(entries) == {entries[i].source : i \in 1..Len(entries)} \ {""}

\* C26: the aggregate of a batch has totalEntries equal to the number of
\* entries, errorCount and warnCount equal to the number of entries of level
\* error and warn (so their sum is at most totalEntries), and a source list
\* that holds exactly the non-empty sources of the entries, each once.
C26_ExactTallies ==
  Aggregated =>
    /\ lp.ret.entries = lp.arg
    /\ lp.ret.totalEntries = Len(lp.arg)
    /\ lp.ret.errorCount = Cardinality(IndicesAtLevel(lp.arg, "error"))
    /\ lp.ret.warnCount = Cardinality(IndicesAtLevel(lp.arg, "warn"))
    /\ lp.ret.errorCount + lp.ret.warnCount <= lp.ret.totalEntries
    /\ {lp.ret.sources[i] : i \in 1..Len(lp.ret.sources)} = NonEmptySources(lp.arg)
    /\ Len(lp.ret.sources) = Cardinality(NonEmptySources(lp.arg))

\* C26 witness: three entries, an error and a warn among them, two with the
\* same source and one with none, were aggregated to one source.
C26_Witness ==
  /\ Aggregated /\ lp.ret.totalEntries = 3
  /\ lp.ret.errorCount = 2 /\ lp.ret.warnCount = 1
  /\ \E i \in 1..3 : lp.arg[i].source = ""
  /\ lp.ret.sources = <<"database">>

\* Calendar order of two dates.
NotAfter(a, b) == a.day < b.day \/ (a.day = b.day /\ a.sec <= b.sec)

\* The dates of the timestamps that parse.
ParsedDates(entries) ==
  {d \in {ParseDate(entries[i].timestamp) : i \in 1..Len(entries)} : d.valid}

Extracted == lp.op = "extractErrorPatterns"

\* The entries, by number, that are errors whose message has a keyword of
\* the rule.
Contributors(entries, rule) ==
  {k \in 1..Len(entries) :
     entries[k].level = "error" /\ Substrings(entries[k].message) \cap rule.keywords # {}}

RuleOfTag(tag) == CHOOSE i \in 1..Len(PatternRules) : PatternRules[i].tag = tag

\* C29: extractErrorPatterns returns a tag exactly when some entry of level
\* error has a message containing, in any letter case, a keyword of the tag;
\* entries of other levels contribute nothing; a message with the keywords of
\* several tags contributes them all; no tag is returned twice, and the tags
\* stand in the order of the first entries that contribute them.
C29_TagsOfErrorMessages ==
  Extracted =>
    LET tags == lp.ret
        first(tag) == Min(Contributors(lp.arg, PatternRules[RuleOfTag(tag)]))
    IN /\ {tags[i] : i \in 1..Len(tags)}
            = {PatternRules[i].tag : i \in {j \in 1..Len(PatternRules) :
                                               Contributors(lp.arg, PatternRules[j]) # {}}}
       /\ \A i, j \in 1..Len(tags) : i # j => tags[i] # tags[j]
       /\ \A i, j \in 1..Len(tags) : i < j => first(tags[i]) <= first(tags[j])
       /\ (\E k \in 1..Len(lp.arg) :
              /\ lp.arg[k].level = "error"
              /\ lp.arg[k].message = "Read TIMEOUT on Connection 7")
            => \A tag \in {"connection_errors", "timeout_errors"} :
                 \E i \in 1..Len(tags) : tags[i] = tag

\* C29 witness: a warn entry about memory, then an error entry about space,
\* then an error entry with 'TIMEOUT' and 'Connection' gave the disk tag and
\* then the connection and the timeout tags, and no memory tag.
C29_Witness ==
  /\ Extracted /\ Len(lp.arg) = 3
  /\ lp.arg[1].level = "warn" /\ lp.arg[1].message = "Out of memory"
  /\ lp.arg[3].message = "Read TIMEOUT on Connection 7"
  /\ lp.ret = <<"disk_errors", "connection_errors", "timeout_errors">>

(* ------------------------ the phases of analyze ------------------------ *)
\* The external calls issued so far, and the one awaited.
IssuedCalls == Len(oracleCalls) + Cardinality(searchCalls)
Awaiting == pc \in {"awaitVerdict", "awaitSearch", "awaitFixes", "awaitTest"}
IssuesOracleCall(kind) ==
  /\ Len(oracleCalls') > Len(oracleCalls)
  /\ \E i \in (Len(oracleCalls) + 1)..Len(oracleCalls') : oracleCalls'[i] = kind
HasCall(kind) == \E i \in 1..Len(oracleCalls) : oracleCalls[i] = kind

\* C30: in every step of analyze at most one external call is issued, and,
\* the verdict call apart, only in the step in which the call awaited
\* returns, so no two are in flight at once. A search is issued only when
\* the verdict call, the one oracle call made so far, has returned; the fix
\* call is issued only in the step in which the verdict call or the last
\* search returns, and no search is issued from then on; a test call is
\* issued only after the fix call was made and in the step in which the fix
\* call or the test call before it returns.
C30_PhasesSequential ==
  [][ /\ IssuedCalls' <= IssuedCalls + 1
      /\ oracleCalls = SubSeq(oracleCalls', 1, Len(oracleCalls))
      /\ searchCalls \subseteq searchCalls'
      /\ IssuedCalls' > IssuedCalls => (IF pc = "idle" THEN IssuedCalls = 0 ELSE Awaiting)
      /\ IssuesOracleCall("verdict") => pc = "idle" /\ pc' = "awaitVerdict"
      /\ searchCalls' # searchCalls =>
           /\ oracleCalls = <<"verdict">> /\ oracleCalls' = oracleCalls
           /\ pc \in {"awaitVerdict", "awaitSearch"} /\ pc' = "awaitSearch"
      /\ IssuesOracleCall("fixes") =>
           /\ oracleCalls = <<"verdict">>
           /\ pc \in {"awaitVerdict", "awaitSearch"} /\ pc' = "awaitFixes"
      /\ IssuesOracleCall("test") =>
           /\ HasCall("fixes")
           /\ pc \in {"awaitFixes", "awaitTest"} /\ pc' = "awaitTest"
    ]_vars

\* C30 witness: an analysis that searched a backend, asked for fixes and is
\* awaiting its second test call.
C30_Witness ==
  /\ pc = "awaitTest"
  /\ searchCalls # {}
  /\ oracleCalls = <<"verdict", "fixes", "test", "test">>

(* --------------------------- test generation --------------------------- *)
CallsOf(kind) == Cardinality({i \in 1..Len(oracleCalls) : oracleCalls[i] = kind})
TestableFixes ==
  {i \in 1..Len(analysisResult.suggestedFixes) : Testable(analysisResult.suggestedFixes[i])}

\* C31 as stated: an analysis that generated tests issued one test call for
\* each of the first three fixes that carry both code and a file path, so
\* three calls when three or more fixes of the list carry both, however many
\* fixes before them lack one.
C31_TestCallsForFirstThreeTestable ==
  (Returned /\ Flag(request.includeTests)) =>
    CallsOf("test") = Min({3, Cardinality(TestableFixes)})

\* C32: a returned result has at most three unit tests; each has the id
\* 'test-' followed by the id of a fix of suggestedFixes, that id belongs to
\* one fix only, and no two tests name the same fix.
C32_TestsLinkedToOneFixEach ==
  Returned =>
    LET tests == analysisResult.unitTests
        fixes == analysisResult.suggestedFixes
    IN /\ Len(tests) <= 3
       /\ \A t \in 1..Len(tests) :
            /\ tests[t].id.prefix = "test-"
            /\ Cardinality({i \in 1..Len(fixes) : fixes[i].id = tests[t].id.of}) = 1
       /\ \A t, u \in 1..Len(tests) : t # u => tests[t].id.of # tests[u].id.of

\* C32 witness: a result with four fixes and three tests, for the first
\* three of them.
C32_Witness ==
  /\ Returned
  /\ Len(analysisResult.suggestedFixes) = 4
  /\ Len(analysisResult.unitTests) = 3
  /\ \A t \in 1..3 : analysisResult.unitTests[t].id.of = analysisResult.suggestedFixes[t].id

\* C39: one analyze() call issues at most five oracle calls: one verdict
\* call, at most one fix call and none when includeFixes is false, at most
\* three test calls and none when includeTests is false or the fix list is
\* empty.
C39_AtMostFiveOracleCalls ==
  /\ Len(oracleCalls) <= 5
  /\ Len(oracleCalls) = CallsOf("verdict") + CallsOf("fixes") + CallsOf("test")
  /\ CallsOf("verdict") = (IF pc = "idle" THEN 0 ELSE 1)
  /\ CallsOf("fixes") <= 1
  /\ ~Flag(request.includeFixes) => CallsOf("fixes") = 0
  /\ CallsOf("test") <= 3
  /\ ~Flag(request.includeTests) => CallsOf("test") = 0
  /\ (pc # "idle" /\ analysisResult # NoResult /\ analysisResult.suggestedFixes = <<>>)
       => CallsOf("test") = 0

\* C39 witness: an analysis of a list of four fixes that all carry code and a
\* file path returned after five oracle calls.
C39_Witness ==
  /\ Returned
  /\ Cardinality(TestableFixes) = 4
  /\ oracleCalls = <<"verdict", "fixes", "test", "test", "test">>

(* ---------------------------- code analysis --------------------------- *)
HasCodeAnalysis == analysisResult # NoResult /\ analysisResult.codeAnalysis # Undef
ConnectedIds == {id \in ServerIds : servers[id]}
SearchedIds == {c[1] : c \in searchCalls}
FailureNote(id) == <<"Failed to analyze code in", ServerName(id)>>
ReturnedAfterSearches == Returned /\ HasCodeAnalysis /\ searchCalls # {}

\* C33: a search that fails never ends the analysis with an error; when the
\* searches of a backend end, by the failure of one or after the last term,
\* the next connected backend is queried, and after the last backend the
\* code analysis is returned; a failure appends the note of the backend
\* queried to potentialIssues and nothing else does; in a returned result
\* whose code analysis made a search every connected backend was queried and
\* the notes name backends that were queried, each at most once.
C33_SearchFailureCaught ==
  [][ /\ pc = "awaitSearch" =>
           LET id == ca.servers[ca.si]
               issues == IF pc' = "awaitSearch" THEN ca'.potentialIssues
                         ELSE analysisResult'.codeAnalysis.potentialIssues
           IN /\ pc' \in {"awaitSearch", "awaitFixes", "awaitTest", "done"}
              /\ \/ issues = ca.potentialIssues
                 \/ /\ issues = Append(ca.potentialIssues, FailureNote(id))
                    /\ IF ca.si < Len(ca.servers)
                         THEN /\ pc' = "awaitSearch" /\ ca'.si = ca.si + 1
                              /\ <<ca.servers[ca.si + 1], ca.terms[1]>> \in searchCalls'
                         ELSE pc' # "awaitSearch"
      /\ ReturnedAfterSearches' =>
           LET issues == analysisResult'.codeAnalysis.potentialIssues
           IN /\ SearchedIds' = ConnectedIds'
              /\ \A i \in 1..Len(issues) : \E id \in SearchedIds' : issues[i] = FailureNote(id)
              /\ \A i, j \in 1..Len(issues) : i # j => issues[i] # issues[j]
    ]_vars

\* C33 witness: with all three backends connected a search on the first one
\* failed, the other two were queried and the analysis returned with the note
\* of the first.
C33_Witness ==
  /\ Returned /\ HasCodeAnalysis
  /\ SearchedIds = ServerIds
  /\ analysisResult.codeAnalysis.potentialIssues = <<FailureNote("github")>>

\* C34 as stated: a backend is named in mcpServerUsed of a result only if a
\* search was issued to it during the analysis.
C34_UsedMeansQueried ==
  (Returned /\ HasCodeAnalysis) =>
    \A i \in 1..Len(analysisResult.codeAnalysis.mcpServerUsed) :
      \E id \in SearchedIds : analysisResult.codeAnalysis.mcpServerUsed[i] = ServerName(id)

Distinct(s) == \A i, j \in 1..Len(s) : i # j => s[i] # s[j]

TermsBounded ==
  /\ Len(ca.terms) <= 10 /\ Distinct(ca.terms)
  /\ \A c \in searchCalls :
       pc = "awaitSearch" => c[2] \in {ca.terms[i] : i \in 1..Len(ca.terms)}
FilesBounded ==
  HasCodeAnalysis =>
    LET files == analysisResult.codeAnalysis.affectedFiles
    IN /\ Len(files) <= 20 /\ Distinct(files)
       /\ \A i \in 1..Len(files) : files[i] \in ca.returned

\* C36: a code analysis uses at most ten search terms, pairwise distinct; the
\* affectedFiles of a result are at most twenty paths, pairwise distinct, each
\* returned by a search of this analysis; the paths are kept in the order in
\* which the searches first returned them.
C36_CodeAnalysisBounded ==
  [][ /\ TermsBounded' /\ FilesBounded'
      /\ pc = "awaitSearch" =>
           LET after == IF pc' = "awaitSearch" THEN ca'.affectedFiles
                        ELSE analysisResult'.codeAnalysis.affectedFiles
               kept == IF Len(ca.affectedFiles) < Len(after) THEN Len(ca.affectedFiles)
                       ELSE Len(after)
           IN /\ SubSeq(after, 1, kept) = SubSeq(ca.affectedFiles, 1, kept)
              /\ kept = Len(ca.affectedFiles) \/ kept = 20
    ]_vars

\* C36 witness: an analysis searched ten distinct terms, its searches returned
\* twenty-one paths and the result holds twenty of them.
C36_Witness ==
  /\ Returned /\ HasCodeAnalysis
  /\ Cardinality({c[2] : c \in searchCalls}) = 10
  /\ Cardinality(ca.returned) = 21
  /\ Len(analysisResult.codeAnalysis.affectedFiles) = 20

(* ------------------------- selection of records ------------------------ *)
\* a is strictly later than b in calendar order.
Later(a, b) == a.day > b.day \/ (a.day = b.day /\ a.sec > b.sec)

\* The entries, by number, of the given level that have fewer than n entries
\* of that level later than they are: the n most recent.
MostRecent(entries, level, n) ==
  {i \in IndicesAtLevel(entries, level) :
     Cardinality({j \in IndicesAtLevel(entries, level) :
                    Later(ParseDate(entries[j].timestamp), ParseDate(entries[i].timestamp))})
       < n}

WordsOf(message) == {Words(message)[k] : k \in 1..Len(Words(message))}

\* C35 as stated (for the search terms): the words taken from error messages
\* are those of the five error entries with the latest timestamps, whatever
\* the order of the batch.
C35_TermsFromMostRecentErrors ==
  (lp.op = "extractSearchTerms" /\ lp.rootCause = Str("io")) =>
    {lp.ret[k] : k \in 1..Len(lp.ret)}
      = UNION {WordsOf(lp.arg[i].message) \ MessageStopWords :
                 i \in MostRecent(lp.arg, "error", 5)}

(* ----------------------- sessions of the registry --------------------- *)
\* C37: in every state, so at every await at which control can pass from one
\* call of connectServer, disconnectServer or searchCode to another, the
\* connected flag of a server is set exactly when a client is cached under
\* its id.
C37_FlagIffSessionCached ==
  \A id \in ServerIds : servers[id] <=> Has(clientMap, id)

\* C37 witness: while the teardown of a disconnect is awaited, a connect of
\* the same id has completed: the flag is set and the client cached is the
\* new one.
C37_Witness ==
  \E p \in Slots :
    /\ calls[p].pc = "teardown"
    /\ servers[calls[p].id] /\ Has(clientMap, calls[p].id)
    /\ clientMap[calls[p].id].client # calls[p].held

\* The clients whose connect() resolved, named by the call that built them.
Established == {p \in Slots : calls[p].op = "connect" /\ calls[p].ret = "true"}
TornDown == {hist.teardowns[i] : i \in 1..Len(hist.teardowns)}

\* C38 as stated: every client whose handshake succeeded is the one cached
\* under its id or has had its disconnect() called.
C38_SessionCachedOrTornDown ==
  \A p \in Established :
    clientMap[calls[p].id].client = p \/ p \in TornDown

====
